---- MODULE Spec2Model ----
(***************************************************************************)
(* Model of the frame loop of DeferMySponza's Renderer: the partitioned    *)
(* persistently mapped buffers, the per-partition fence (Sync) objects,    *)
(* the update tasks launched by Renderer::render and the forward and       *)
(* deferred render paths.                                                  *)
(***************************************************************************)
EXTENDS Integers, Sequences, FiniteSets, TLC

(***************************************************************************)
(* Bounds of the model.                                                    *)
(***************************************************************************)
MaxPartitions == 2
MaxFrames == 3
MaxSize == 3
MaxCalls == 3
MaxBuffers == 3
MaxLights == 3
MaxMeshes == 2
MaxAligned == 8

(***************************************************************************)
(* Program constants.                                                      *)
(***************************************************************************)
\* Renderer.cpp:378   constexpr auto transformOffset = size_t { 1 };
transformOffset == 1
\* Renderer.cpp:608   m_lightDrawing.count = 3;
lightDrawCount == 3

\* sizeof (glm::mat4), the size of a view matrix.
matrixSize == 64

VARIABLES
    multiBuffering,     \* types::multiBuffering, the partition count P of the build
    ndebug,             \* whether the build compiles assert() away (NDEBUG)
    scene,              \* the scene::Context the controller owns
    initialised,        \* the last Renderer::initialise succeeded and no clean() followed
    m_partition,        \* Renderer::m_partition
    m_syncs,            \* Renderer::m_syncs, one fence per partition
    m_deferredRender,   \* Renderer::m_deferredRender
    m_multiThreaded,    \* Renderer::m_multiThreaded
    boundPartition,     \* the partition the blocks of m_uniforms are bound to
    pc,                 \* position of the control thread
    step,               \* the step of the render path the control thread is at
    tasks,              \* state of each future of ASyncActions
    taskPart,           \* the partition each update task addressed when it ran
    drawn,              \* the draw calls issued so far in this frame
    frameK,             \* the partition synchronised at the start of this frame
    waitResult,         \* result of waitForSignal in this frame
    armFailed,          \* Sync::initialise returned false in this frame
    frames,             \* completed render() calls since construction
    sinceInit,          \* completed render() calls since the last successful initialise()
    sinceClean,         \* completed render() calls since construction or the last clean()
    built,              \* the build steps of initialise() whose objects are built
    notified,           \* the tasks whose modified ranges were flush-notified in this frame
    m_buffer,           \* PersistentMappedBuffer::m_buffer, the name of the buffer object (0: none)
    m_mapping,          \* PersistentMappedBuffer::m_mapping, the mapped address (0: nullptr)
    m_size,             \* PersistentMappedBuffer::m_size
    m_flushable,        \* PersistentMappedBuffer::m_flushable
    called,             \* the last call on the buffer: what it returned and what it flushed
    calls,              \* number of calls made on the buffer
    transformBuffer,    \* the model transforms written to the partition of m_objectTransforms
    materialIDBuffer,   \* the material IDs written to the partition of m_objectMaterialIDs
    drawCommandBuffer,  \* the draw commands written to the partition of m_objectDrawing
    baseInstance,       \* the local baseInstance of updateDynamicObjects
    lightTransformBuffer,   \* the transforms written to the partition of m_lightTransforms
    ranges,             \* the ModifiedDynamicObjectRanges updateDynamicObjects returned
    finished,           \* the update tasks that have returned
    lightResults,       \* what each light task wrote to its uniform block and returned
    pmbs,               \* the members of each of two PersistentMappedBuffer objects
    glGenerated,        \* the number of buffer names glGenBuffers has given out
    glDeleted,          \* the buffer names passed to glDeleteBuffers, in order
    glUnmapped,         \* the buffer names unmapped, in order
    moved,              \* the last call made on the two objects
    shadowMaps,         \* the members of a ShadowMaps object
    shadowCalled,       \* the last call on the ShadowMaps object and what it returned
    instances,          \* the instances of the scene buildGeometry collates
    geometry,           \* the locals of buildGeometry and of Geometry::fillStaticBuffers
    wrappers,           \* the kind of two device-object wrappers and the name each holds
    device,             \* the device objects created for the wrappers and those deleted
    aligned             \* a call of Uniforms::calculateAlignedSize and what it returned

vars == << multiBuffering, ndebug, scene, initialised, m_partition, m_syncs,
           m_deferredRender, m_multiThreaded, boundPartition, pc, step, tasks, taskPart,
           drawn, frameK, waitResult, armFailed, frames, sinceInit, sinceClean,
           built, notified,
           m_buffer, m_mapping, m_size, m_flushable, called, calls,
           transformBuffer, materialIDBuffer, drawCommandBuffer, baseInstance,
           lightTransformBuffer, ranges, finished, lightResults,
           pmbs, glGenerated, glDeleted, glUnmapped, moved,
           shadowMaps, shadowCalled, instances, geometry, wrappers, device, aligned >>

Partitions == 0 .. (multiBuffering - 1)

(***************************************************************************)
(* The scene: light counts and the dynamic meshes with their instance      *)
(* counts (m_dynamics holds only meshes with at least one dynamic          *)
(* instance).                                                              *)
(***************************************************************************)
RECURSIVE SeqSum(_)
SeqSum(s) == IF s = << >> THEN 0 ELSE Head(s) + SeqSum(Tail(s))

\* The scenes of the model: one without dynamic instances and one with every
\* kind of light and two meshes, of one and of two dynamic instances.
Scenes ==
    { [ directional |-> 0, point |-> 0, spot |-> 0, dynamics |-> << >> ],
      [ directional |-> 1, point |-> 1, spot |-> 1, dynamics |-> << 1, 2 >> ] }

(***************************************************************************)
(* The update tasks of ASyncActions.                                       *)
(***************************************************************************)
ASyncActions ==
    { "sceneUniforms", "lightDrawCommands", "directionalLights",
      "dynamicObjects", "pointLights", "spotLights" }

NoTasks == [ t \in ASyncActions |-> "none" ]
NotRun == [ uniforms |-> -1, buffers |-> -1, ranges |-> -1 ]
NoParts == [ t \in ASyncActions |-> NotRun ]

(***************************************************************************)
(* Sync, the fence object of one partition.  A fence is "unarmed" (no      *)
(* fence object), "armed" (submitted, the device has not reached it) or    *)
(* "signaled" (the device has reached it).                                 *)
(***************************************************************************)
isInitialised(sync) == sync # "unarmed"

checkIfSignalled(sync) == sync = "signaled"

\* Sync::initialise: the new state of the fence and the value returned.
SyncInitialise(sync) ==
    IF sync = "armed"
    THEN [ sync |-> sync, result |-> FALSE ]
    ELSE [ sync |-> "armed", result |-> TRUE ]

SyncClean(sync) == "unarmed"

(***************************************************************************)
(* The entries of the partitioned buffers.  An entry is one element of a   *)
(* buffer: a uniform block member of m_uniforms.m_blocks (index 0 is the   *)
(* count field of a light block, index i the light objects[i - 1]), a draw *)
(* command, a model transform or a material ID.                            *)
(***************************************************************************)
UniformEntries(block, part, count) ==
    IF part = -1 THEN { }
    ELSE { [ buf |-> "m_blocks", part |-> part, block |-> block, idx |-> i ] :
             i \in 0 .. count }

BufferEntries(buf, part, first, count) ==
    IF part = -1 THEN { }
    ELSE { [ buf |-> buf, part |-> part, block |-> "", idx |-> i ] :
             i \in first .. (first + count - 1) }

\* processLightUniforms: the count and one uniform object per light.
processLightUniforms(block, part, count) == UniformEntries(block, part, count)

\* processLightVolumes: the uniforms and transforms[offset + i] for each light i.
processLightVolumes(block, uniPart, count, part, offset) ==
    UniformEntries(block, uniPart, count)
        \cup BufferEntries("m_lightTransforms", part, offset, count)

\* The offset render() passes to the point light and to the spotlight task.
\* Mutant of PointTransformOffset: the point light transforms start at the
\* entry of the full-screen quad.
PointTransformOffsetOfQuad == transformOffset - 1

PointTransformOffset == transformOffset
SpotTransformOffset == transformOffset

\* The entries a task has written, given the partitions it addressed.
Written(t) ==
    LET tp == taskPart[t] IN
    CASE t = "sceneUniforms" ->
            UniformEntries("Scene", tp.uniforms, 0)
      [] t = "directionalLights" ->
            processLightUniforms("DirectionalLights", tp.uniforms, scene.directional)
      [] t = "pointLights" ->
            processLightVolumes("PointLights", tp.uniforms, scene.point,
                                tp.buffers, PointTransformOffset)
      [] t = "spotLights" ->
            processLightVolumes("Spotlights", tp.uniforms, scene.spot,
                                tp.buffers, SpotTransformOffset)
      [] t = "lightDrawCommands" ->
            BufferEntries("m_lightDrawing", tp.buffers, 0, lightDrawCount)
      [] t = "dynamicObjects" ->
            BufferEntries("m_objectDrawing", tp.buffers, 0, Len(scene.dynamics))
                \cup BufferEntries("m_objectTransforms", tp.buffers, 0,
                                   SeqSum(scene.dynamics))
                \cup BufferEntries("m_objectMaterialIDs", tp.buffers, 0,
                                   SeqSum(scene.dynamics))

(***************************************************************************)
(* The partitions an update task addresses when it runs and reads the      *)
(* value p of m_partition.  The uniform tasks write through the pointers   *)
(* Uniforms::bindBlocksToPartition set up; the other tasks take their      *)
(* pointers from PersistentMappedBuffer::pointer (p) and their ranges from *)
(* partitionOffset (p).                                                    *)
(***************************************************************************)
\* PersistentMappedBuffer::pointer: the partition the returned pointer starts.
pointer(partition) == IF partition < multiBuffering THEN partition ELSE 0

updateSceneUniforms ==
    [ uniforms |-> boundPartition, buffers |-> -1, ranges |-> -1 ]

updateDirectionalLights ==
    [ uniforms |-> boundPartition, buffers |-> -1, ranges |-> -1 ]

\* updatePointLights, updateSpotlights: transforms only in a deferred render.
updateLightVolumes(p) ==
    IF m_deferredRender
    THEN [ uniforms |-> boundPartition, buffers |-> pointer(p), ranges |-> p ]
    ELSE [ uniforms |-> boundPartition, buffers |-> -1, ranges |-> -1 ]

updateLightDrawCommands(p) ==
    [ uniforms |-> -1, buffers |-> pointer(p), ranges |-> p ]

\* updateDynamicObjects up to the end of its loops: the pointers are taken.
updateDynamicObjectsWrite(p) ==
    [ uniforms |-> -1, buffers |-> pointer(p), ranges |-> -1 ]

\* updateDynamicObjects from "Now configure the draw commands": the offsets.
updateDynamicObjectsRanges(tp, p) ==
    [ tp EXCEPT !.ranges = p ]

\* A task run from start to end without interruption.
RunWhole(t, p) ==
    CASE t = "sceneUniforms" -> updateSceneUniforms
      [] t = "directionalLights" -> updateDirectionalLights
      [] t = "pointLights" -> updateLightVolumes(p)
      [] t = "spotLights" -> updateLightVolumes(p)
      [] t = "lightDrawCommands" -> updateLightDrawCommands(p)
      [] t = "dynamicObjects" ->
            updateDynamicObjectsRanges(updateDynamicObjectsWrite(p), p)

(***************************************************************************)
(* The state after construction of the Renderer.                           *)
(***************************************************************************)
\* A default constructed PersistentMappedBuffer on which nothing was called.
NoCall == [ op |-> "none", arg |-> 0, ret |-> "none", address |-> 0, flush |-> << >> ]

PersistentMappedBuffer ==
    /\ m_buffer = 0
    /\ m_mapping = 0
    /\ m_size = 0
    /\ m_flushable = FALSE
    /\ called = NoCall
    /\ calls = 0

\* The partition of the dynamic object and light buffers before a task wrote to it.
NoRanges == [ drawCommands |-> << >>, transforms |-> << >>, materialIDs |-> << >> ]

\* A light task that has not run: nothing in its uniform block, no ranges.
NoLightResult == [ count |-> -1, objects |-> { }, uniforms |-> << >>, transforms |-> << >> ]

NothingWritten ==
    /\ transformBuffer = << >>
    /\ materialIDBuffer = << >>
    /\ drawCommandBuffer = << >>
    /\ baseInstance = 0
    /\ lightTransformBuffer = [ i \in 0 .. (scene.point + scene.spot) |-> << >> ]
    /\ ranges = NoRanges
    /\ finished = { }
    /\ lightResults = [ t \in { "pointLights", "spotLights" } |-> NoLightResult ]

\* The two PersistentMappedBuffer objects of the ownership model.
Instances == 1 .. 2

\* The members of a default constructed PersistentMappedBuffer.
Uninitialised == [ buffer |-> 0, mapping |-> 0, size |-> 0, flushable |-> FALSE ]

\* A call on the two objects: the operation, the objects it was made on and
\* the buffer names it released.
NoMove == [ op |-> "none", dst |-> 0, src |-> 0, released |-> << >> ]

DefaultConstructed ==
    /\ pmbs = [ i \in Instances |-> Uninitialised ]
    /\ glGenerated = 0
    /\ glDeleted = << >>
    /\ glUnmapped = << >>
    /\ moved = NoMove

\* A default constructed ShadowMaps: no framebuffer, no maps, no lights.
ShadowMaps == [ m_fbo |-> 0, m_maps |-> 0, m_lights |-> << >>, m_ids |-> << >> ]

\* No call is being made on the ShadowMaps object.
NoShadowCall ==
    [ op |-> "none", spotlights |-> << >>, arg |-> 0, ret |-> 0, written |-> << >> ]

ShadowMapsConstructed ==
    /\ shadowMaps = ShadowMaps
    /\ shadowCalled = NoShadowCall

\* buildGeometry has not been called: nothing is collated, no vector is filled.
NoGeometry ==
    [ pc |-> "collate", collated |-> 0, staticInstances |-> << >>, commands |-> << >>,
      materialIDs |-> << >>, transforms |-> << >>, pushed |-> 0,
      count |-> 0, capacity |-> 0 ]

GeometryConstructed ==
    /\ instances = << >>
    /\ geometry = NoGeometry

\* Two default constructed wrappers of a kind: neither holds a device object.
NoWrappers(kind) == [ kind |-> kind, ids |-> [ i \in Instances |-> 0 ] ]

\* No device object has been created for the wrappers.
NoDevice == [ created |-> 0, deleted |-> << >>, called |-> "none" ]

WrappersConstructed ==
    /\ wrappers = NoWrappers("Buffer")
    /\ device = NoDevice

\* calculateAlignedSize has not been called.
NotAligned == [ size |-> 1, alignment |-> 1, called |-> FALSE, ret |-> 0 ]

UniformsConstructed == aligned = NotAligned

\* The objects of the stand-alone units after their construction.
UnitsConstructed ==
    /\ ShadowMapsConstructed
    /\ GeometryConstructed
    /\ WrappersConstructed
    /\ UniformsConstructed

\* The members of the Renderer after its construction.
Renderer ==
    /\ initialised = FALSE
    /\ m_partition = 0
    /\ m_syncs = [ i \in Partitions |-> "unarmed" ]
    /\ m_deferredRender = TRUE
    /\ m_multiThreaded = TRUE
    /\ boundPartition = 0
    /\ pc = "idle"
    /\ step = 0
    /\ tasks = NoTasks
    /\ taskPart = NoParts
    /\ drawn = { }
    /\ frameK = -1
    /\ waitResult = "none"
    /\ armFailed = FALSE
    /\ frames = 0
    /\ sinceInit = 0
    /\ sinceClean = 0
    /\ built = { }
    /\ notified = { }

Init ==
    /\ multiBuffering \in 1 .. MaxPartitions
    /\ ndebug \in BOOLEAN
    /\ scene \in Scenes
    /\ Renderer
    /\ PersistentMappedBuffer
    /\ NothingWritten
    /\ DefaultConstructed
    /\ UnitsConstructed

\* The members of one PersistentMappedBuffer and the record of the calls on it.
bufferVars == << m_buffer, m_mapping, m_size, m_flushable, called, calls >>

\* What no operation of the Renderer changes, and what no step of a frame changes.
\* The contents of one partition and what the tasks that fill it keep.
updateVars ==
    << transformBuffer, materialIDBuffer, drawCommandBuffer, baseInstance,
       lightTransformBuffer, ranges, finished, lightResults >>

\* The two buffers of the ownership model and the device calls made for them.
moveVars == << pmbs, glGenerated, glDeleted, glUnmapped, moved >>

\* The objects of the stand-alone units.
shadowVars == << shadowMaps, shadowCalled >>
geometryVars == << instances, geometry >>
wrapperVars == << wrappers, device >>
unitVars == << shadowVars, geometryVars, wrapperVars, aligned >>

fixed == << multiBuffering, ndebug, scene, bufferVars, updateVars, moveVars, unitVars >>
build == << fixed, built >>
modes == << m_deferredRender, m_multiThreaded >>
counters == << frames, sinceInit, sinceClean >>
frameGhosts == << drawn, frameK, waitResult, armFailed, notified >>

(***************************************************************************)
(* Operations of the controller between frames.                            *)
(***************************************************************************)
\* Mutant of CalledBetweenFrames: a setter runs at any point of a frame.
CalledAtAnyPoint == TRUE

\* The setters are called from the key callbacks of the controller, on the
\* thread that calls render(): never while render() runs.
CalledBetweenFrames == pc = "idle"

setThreadingMode(useMultipleThreads) ==
    /\ CalledBetweenFrames
    /\ m_multiThreaded' = useMultipleThreads
    /\ UNCHANGED << build, step, initialised, m_partition, m_syncs, m_deferredRender,
                    boundPartition, pc, tasks, taskPart, frameGhosts, counters >>

setRenderingMode(useDeferredRendering) ==
    /\ CalledBetweenFrames
    /\ m_deferredRender' = useDeferredRendering
    /\ UNCHANGED << build, step, initialised, m_partition, m_syncs, m_multiThreaded,
                    boundPartition, pc, tasks, taskPart, frameGhosts, counters >>

\* buildDynamicObjectBuffers: PersistentMappedBuffer::initialise refuses a size of 0.
buildDynamicObjectBuffers == SeqSum(scene.dynamics) # 0 /\ Len(scene.dynamics) # 0

\* The build steps of Renderer::initialise, in the order it runs them.
BuildSteps ==
    << "programs", "materials", "dynamicObjectBuffers", "lightBuffers", "geometry",
       "framebuffers", "uniforms" >>

\* The step the device refuses, if any.
FailingSteps == { "none" } \cup { BuildSteps[i] : i \in 1 .. Len(BuildSteps) }

\* Whether a build step returns false.
StepFails(name, failing) ==
    \/ name = failing
    \/ name = "dynamicObjectBuffers" /\ ~buildDynamicObjectBuffers

\* The steps initialise runs with success before it returns.
StepsBuilt(failing) ==
    { BuildSteps[i] : i \in { j \in 1 .. Len(BuildSteps) :
                                \A h \in 1 .. j : ~StepFails(BuildSteps[h], failing) } }

\* What is built when initialise returns false: it returns at the failed step.
AfterFailure(failing) == built \cup StepsBuilt(failing)

\* Renderer::initialise; failing is the build step the device refuses.
initialise(failing) ==
    /\ pc = "idle"
    /\ IF StepsBuilt(failing) = FailingSteps \ { "none" }
       THEN /\ initialised' = TRUE
            /\ built' = StepsBuilt(failing)
            /\ boundPartition' = 0
            /\ sinceInit' = 0
       ELSE /\ initialised' = FALSE
            /\ built' = AfterFailure(failing)
            /\ UNCHANGED << boundPartition, sinceInit >>
    /\ UNCHANGED << fixed, step, m_partition, m_syncs, modes, pc, tasks, taskPart,
                    frameGhosts, frames, sinceClean >>

\* Mutant of CleanSyncs: clean() forgets the fences.
CleanSyncsKept == m_syncs

\* The fences after Renderer::clean.
CleanSyncs == [ i \in Partitions |-> SyncClean(m_syncs[i]) ]

clean ==
    /\ pc = "idle"
    /\ initialised' = FALSE
    /\ m_deferredRender' = TRUE
    /\ m_syncs' = CleanSyncs
    /\ sinceClean' = 0
    /\ built' = { }
    /\ UNCHANGED << fixed, step, m_partition, m_multiThreaded, boundPartition, pc, tasks,
                    taskPart, frameGhosts, frames, sinceInit >>

(***************************************************************************)
(* The device reaches the fence of a partition.                            *)
(***************************************************************************)
DeviceSignals(i) ==
    /\ pc # "aborted"
    /\ m_syncs[i] = "armed"
    /\ m_syncs' = [ m_syncs EXCEPT ![i] = "signaled" ]
    /\ UNCHANGED << build, step, initialised, m_partition, modes, boundPartition, pc, tasks,
                    taskPart, frameGhosts, counters >>

(***************************************************************************)
(* Renderer::render, one action per step of the control thread.            *)
(***************************************************************************)
\* Mutant of NeedsWait: the fence is polled without the isInitialised check.
NeedsWaitUnguarded(sync) == ~checkIfSignalled(sync)

\* syncWithGPUIfNecessary: whether the fence has to be waited for.
NeedsWait(sync) == isInitialised(sync) /\ ~checkIfSignalled(sync)

\* render() is entered and syncWithGPUIfNecessary polls the fence of m_partition.
syncWithGPUIfNecessary ==
    /\ pc = "idle"
    /\ initialised
    /\ frames < MaxFrames
    /\ frameK' = m_partition
    /\ pc' = IF NeedsWait(m_syncs[m_partition]) THEN "wait" ELSE "bind"
    /\ UNCHANGED << build, step, initialised, m_partition, m_syncs, modes, boundPartition,
                    tasks, taskPart, drawn, waitResult, armFailed, notified, counters >>

\* What follows a failed assert: the frame goes on when assert is compiled away.
AfterAssert(holds, next) == IF holds \/ ndebug THEN next ELSE "aborted"

\* waitForSignal (true, oneSecond) returns: true when the device has reached the
\* fence, false when the second has passed without it.
waitForSignal ==
    /\ pc = "wait"
    /\ LET result == checkIfSignalled(m_syncs[m_partition]) IN
        /\ waitResult' = IF result THEN "signaled" ELSE "timeout"
        /\ pc' = AfterAssert(result, "bind")
    /\ UNCHANGED << build, step, initialised, m_partition, m_syncs, modes, boundPartition,
                    tasks, taskPart, drawn, frameK, armFailed, notified, counters >>

\* m_uniforms.bindBlocksToPartition (m_partition)
bindBlocksToPartition ==
    /\ pc = "bind"
    /\ boundPartition' = m_partition
    /\ pc' = "launch"
    /\ UNCHANGED << build, step, initialised, m_partition, m_syncs, modes, tasks, taskPart,
                    frameGhosts, counters >>

\* Mutant of forwardRender: the dynamic multi-draw is issued before the join.
forwardRenderDrawsFirst ==
    << "sceneUniforms", "directionalLights", "pointLights", "spotLights",
       "drawStatic", "drawDynamic", "dynamicObjects" >>

\* Mutant of forwardRender: the result of updateSceneUniforms is fetched again
\* before the dynamic multi-draw.
forwardRenderFetchesTwice ==
    << "sceneUniforms", "directionalLights", "pointLights", "spotLights",
       "drawStatic", "dynamicObjects", "sceneUniforms", "drawDynamic" >>

\* The order of the joins and draw calls of forwardRender.
forwardRender ==
    << "sceneUniforms", "directionalLights", "pointLights", "spotLights",
       "drawStatic", "dynamicObjects", "drawDynamic" >>

\* deferredRender is empty: it joins nothing and draws nothing.
deferredRender == << >>

RenderPath == IF m_deferredRender THEN deferredRender ELSE forwardRender

\* The position at step i of the render path, and after its last step.
PathPc(i) == IF i <= Len(RenderPath) THEN "path" ELSE "blit"
PathStep(i) == IF i <= Len(RenderPath) THEN i ELSE 0

\* The tasks render() launches and the state of a freshly launched future.
Launched ==
    IF m_deferredRender THEN ASyncActions ELSE ASyncActions \ { "lightDrawCommands" }

policy == IF m_multiThreaded THEN "pending" ELSE "deferred"

launchTasks ==
    /\ pc = "launch"
    /\ tasks' = [ t \in ASyncActions |-> IF t \in Launched THEN policy ELSE "none" ]
    /\ pc' = PathPc(1)
    /\ step' = PathStep(1)
    /\ UNCHANGED << build, initialised, m_partition, m_syncs, modes, boundPartition,
                    taskPart, frameGhosts, counters >>

\* Mutant of get: a deferred task is not run by the thread that asks for its
\* result.
getWithoutRunning(t) ==
    /\ tasks[t] = "done"
    /\ tasks' = [ tasks EXCEPT ![t] = "got" ]
    /\ UNCHANGED taskPart

\* future::get: returns when the task is done; a deferred task runs in the caller.
get(t) ==
    \/ /\ tasks[t] = "done"
       /\ tasks' = [ tasks EXCEPT ![t] = "got" ]
       /\ UNCHANGED taskPart
    \/ /\ tasks[t] = "deferred"
       /\ tasks' = [ tasks EXCEPT ![t] = "got" ]
       /\ taskPart' = [ taskPart EXCEPT ![t] = RunWhole(t, m_partition) ]

\* Mutant of NotifiedBy: the result is fetched and its ranges are dropped.
NotifiedByNone(t) == { }

\* The tasks whose ranges notifyModifiedDataRange is called with at the join of t.
NotifiedBy(t) == { t }

\* A join of forwardRender: the result is fetched and the range notified.
forwardJoin ==
    /\ pc = "path"
    /\ LET i == step IN
        /\ RenderPath[i] \in ASyncActions
        /\ get(RenderPath[i])
        /\ notified' = notified \cup NotifiedBy(RenderPath[i])
        /\ pc' = PathPc(i + 1)
        /\ step' = PathStep(i + 1)
    /\ UNCHANGED << build, initialised, m_partition, m_syncs, modes, boundPartition,
                    drawn, frameK, waitResult, armFailed, counters >>

\* The fields of the Renderer an update task stores to.
FieldsWritten(t) ==
    CASE t = "dynamicObjects" -> { "m_objectDrawing.start", "m_objectDrawing.count" }
      [] t = "lightDrawCommands" -> { "m_lightDrawing.start", "m_lightDrawing.count" }
      [] OTHER -> { }

\* Mutant of ReadBy: the static multi-draw is issued from m_objectDrawing too.
ReadByEveryDraw(call) == { "m_objectDrawing.start", "m_objectDrawing.count" }

\* The fields of the Renderer a draw call of the control thread reads: the
\* static draw uses the commands of m_geometry, m_objectDrawing.draw() the
\* start and count of m_objectDrawing.
ReadBy(call) ==
    IF call = "drawDynamic"
    THEN { "m_objectDrawing.start", "m_objectDrawing.count" }
    ELSE { }

\* A draw call of forwardRender: the static or the dynamic multi-draw.
forwardDraw ==
    /\ pc = "path"
    /\ LET i == step IN
        /\ RenderPath[i] \notin ASyncActions
        /\ drawn' = drawn \cup { RenderPath[i] }
        /\ pc' = PathPc(i + 1)
        /\ step' = PathStep(i + 1)
    /\ UNCHANGED << build, initialised, m_partition, m_syncs, modes, boundPartition,
                    tasks, taskPart, frameK, waitResult, armFailed, notified, counters >>

\* glBlitNamedFramebuffer and the unbinding of the textures.
blit ==
    /\ pc = "blit"
    /\ pc' = "arm"
    /\ UNCHANGED << build, step, initialised, m_partition, m_syncs, modes, boundPartition,
                    tasks, taskPart, frameGhosts, counters >>

\* m_syncs[m_partition].initialise() and the assert on its result.
armFence ==
    /\ pc = "arm"
    /\ LET armed == SyncInitialise(m_syncs[m_partition]) IN
        /\ m_syncs' = [ m_syncs EXCEPT ![m_partition] = armed.sync ]
        /\ armFailed' = ~armed.result
        /\ pc' = AfterAssert(armed.result, "advance")
    /\ UNCHANGED << build, step, initialised, m_partition, modes, boundPartition, tasks,
                    taskPart, drawn, frameK, waitResult, notified, counters >>

\* Mutant of NextPartition: the index is advanced twice.
NextPartitionSkips(k) == (k + 2) % multiBuffering

\* ++m_partition %= multiBuffering
NextPartition(k) == (k + 1) % multiBuffering

advancePartition ==
    /\ pc = "advance"
    /\ m_partition' = NextPartition(m_partition)
    /\ pc' = "destroy"
    /\ UNCHANGED << build, step, initialised, m_syncs, modes, boundPartition, tasks,
                    taskPart, frameGhosts, counters >>

\* ~ASyncActions: every future that is still valid is waited for; a deferred
\* task runs in the waiting thread.
destroyActions ==
    /\ pc = "destroy"
    /\ \A t \in ASyncActions : tasks[t] \notin { "pending", "written" }
    /\ tasks' = [ t \in ASyncActions |->
                    IF tasks[t] = "deferred" THEN "done" ELSE tasks[t] ]
    /\ taskPart' = [ t \in ASyncActions |->
                       IF tasks[t] = "deferred" THEN RunWhole(t, m_partition)
                       ELSE taskPart[t] ]
    /\ pc' = "return"
    /\ UNCHANGED << build, step, initialised, m_partition, m_syncs, modes, boundPartition,
                    frameGhosts, counters >>

\* render() returns.
renderReturns ==
    /\ pc = "return"
    /\ pc' = "idle"
    /\ tasks' = NoTasks
    /\ taskPart' = NoParts
    /\ drawn' = { }
    /\ frameK' = -1
    /\ waitResult' = "none"
    /\ armFailed' = FALSE
    /\ notified' = { }
    /\ frames' = frames + 1
    /\ sinceInit' = sinceInit + 1
    /\ sinceClean' = sinceClean + 1
    /\ UNCHANGED << build, step, initialised, m_partition, m_syncs, modes, boundPartition >>

(***************************************************************************)
(* The worker threads of the async launch policy.                          *)
(***************************************************************************)
\* The values a worker thread can read from m_partition: the read races with
\* ++m_partition %= multiBuffering, which stores k + 1 before the remainder.
RacyPartition ==
    IF pc = "advance" THEN { m_partition, m_partition + 1 } ELSE { m_partition }

\* A task other than updateDynamicObjects runs; updateDynamicObjects runs up to
\* the end of its loops.
taskRuns(t) ==
    /\ tasks[t] = "pending"
    /\ \E p \in RacyPartition :
        IF t = "dynamicObjects"
        THEN /\ tasks' = [ tasks EXCEPT ![t] = "written" ]
             /\ taskPart' = [ taskPart EXCEPT ![t] = updateDynamicObjectsWrite(p) ]
        ELSE /\ tasks' = [ tasks EXCEPT ![t] = "done" ]
             /\ taskPart' = [ taskPart EXCEPT ![t] = RunWhole(t, p) ]
    /\ UNCHANGED << build, step, initialised, m_partition, m_syncs, modes, boundPartition,
                    pc, frameGhosts, counters >>

\* updateDynamicObjects computes its ranges and returns.
dynamicObjectsReturns ==
    /\ tasks["dynamicObjects"] = "written"
    /\ \E p \in RacyPartition :
        /\ tasks' = [ tasks EXCEPT !["dynamicObjects"] = "done" ]
        /\ taskPart' = [ taskPart EXCEPT !["dynamicObjects"] =
                            updateDynamicObjectsRanges(taskPart["dynamicObjects"], p) ]
    /\ UNCHANGED << build, step, initialised, m_partition, m_syncs, modes, boundPartition,
                    pc, frameGhosts, counters >>

Next ==
    \/ \E b \in BOOLEAN : setThreadingMode(b)
    \/ \E b \in BOOLEAN : setRenderingMode(b)
    \/ \E failing \in FailingSteps : initialise(failing)
    \/ clean
    \/ \E i \in Partitions : DeviceSignals(i)
    \/ syncWithGPUIfNecessary
    \/ waitForSignal
    \/ bindBlocksToPartition
    \/ launchTasks
    \/ forwardJoin
    \/ forwardDraw
    \/ blit
    \/ armFence
    \/ advancePartition
    \/ destroyActions
    \/ renderReturns
    \/ \E t \in ASyncActions : taskRuns(t)
    \/ dynamicObjectsReturns

Spec == Init /\ [][Next]_vars

\* A step of the control thread inside render().
RenderStep ==
    \/ waitForSignal
    \/ bindBlocksToPartition
    \/ launchTasks
    \/ forwardJoin
    \/ forwardDraw
    \/ blit
    \/ armFence
    \/ advancePartition
    \/ destroyActions
    \/ renderReturns

\* The control thread keeps running inside render(), and the threads of the
\* async launch policy are scheduled fairly.
Fairness ==
    /\ WF_vars(RenderStep)
    /\ \A t \in ASyncActions : WF_vars(taskRuns(t))
    /\ WF_vars(dynamicObjectsReturns)

LiveSpec == Init /\ [][Next]_vars /\ Fairness

(***************************************************************************)
(* PersistentMappedBuffer <Partitions>, with Partitions = multiBuffering:  *)
(* one buffer object and the calls a client makes on it.                   *)
(***************************************************************************)
\* The members of the Renderer, which the calls on a single buffer leave alone.
rendererVars ==
    << initialised, m_partition, m_syncs, modes, boundPartition, pc, step, tasks,
       taskPart, frameGhosts, counters >>

\* getAccessFlags: the bits of the access mask.
getAccessFlags(read, write, coherent) ==
    { "GL_MAP_PERSISTENT_BIT" }
        \cup (IF read THEN { "GL_MAP_READ_BIT" } ELSE { })
        \cup (IF write THEN { "GL_MAP_WRITE_BIT" } ELSE { })
        \cup (IF coherent THEN { "GL_MAP_COHERENT_BIT" }
              ELSE IF write THEN { "GL_MAP_FLUSH_EXPLICIT_BIT" } ELSE { })

partitionSize == m_size \div multiBuffering

partitionOffset(index) == index * partitionSize

\* glGenBuffers: the name of the buffer object the n-th call creates, and the
\* address glMapNamedBufferRange maps it at.
GenBuffer(n) == n
MapRange(name) == name * (MaxSize * MaxPartitions + 1)

\* The call made on the buffer is counted; a failed assert ends the program.
Call ==
    /\ calls < MaxCalls
    /\ called.ret # "aborted"
    /\ calls' = calls + 1

\* An initialise that returns false; it has changed no member.
Refused(op, size) ==
    /\ called' = [ op |-> op, arg |-> size, ret |-> "false", address |-> 0,
                   flush |-> << >> ]
    /\ UNCHANGED << m_buffer, m_mapping, m_size, m_flushable >>

\* The end of both initialise overloads: the new buffer replaces the old one.
Adopted(op, given, buffer, size, access) ==
    /\ m_buffer' = buffer
    /\ m_mapping' = MapRange(buffer)
    /\ m_size' = size
    /\ m_flushable' = ("GL_MAP_FLUSH_EXPLICIT_BIT" \in access)
    /\ called' = [ op |-> op, arg |-> given, ret |-> "true", address |-> 0,
                   flush |-> << >> ]

\* Mutant of SizeRefused: a partition size of 0 is accepted.
SizeRefusedNever(size) == FALSE

\* initialise (size, ...): the check of the size.
SizeRefused(size) == size = 0

\* initialise (partitionSize, read, coherent); generated is whether glGenBuffers
\* gives a name, mapped whether the mapping succeeds.
InitialisedBySize(size, read, coherent, generated, mapped) ==
    /\ Call
    /\ IF SizeRefused(size) THEN Refused("initialiseSize", size)
       ELSE IF ~generated THEN Refused("initialiseSize", size)
       ELSE LET access == getAccessFlags(read, TRUE, coherent)
                totalSize == size * multiBuffering
            IN IF ~mapped THEN Refused("initialiseSize", size)
               ELSE Adopted("initialiseSize", size, GenBuffer(calls + 1), totalSize,
                            access)

\* A call of initialise (partitionSize, read, coherent): nothing but the buffer
\* changes.
initialiseSize(size, read, coherent, generated, mapped) ==
    /\ InitialisedBySize(size, read, coherent, generated, mapped)
    /\ UNCHANGED << multiBuffering, ndebug, scene, built, rendererVars, unitVars, updateVars, moveVars >>

\* Mutant of DataRefused: the size of the data is not checked against Partitions.
DataRefusedZeroOnly(size) == size = 0

\* initialise (data, ...): the check of the size of the data.
DataRefused(size) == size % multiBuffering # 0 \/ size = 0

\* initialise (data, read, write, coherent); size is the size of the data.
InitialisedByData(size, read, write, coherent, generated, mapped) ==
    /\ Call
    /\ IF ~read /\ ~write THEN Refused("initialiseData", size)
       ELSE IF ~generated THEN Refused("initialiseData", size)
       ELSE LET access == getAccessFlags(read, write, coherent) IN
            IF DataRefused(size) THEN Refused("initialiseData", size)
            ELSE IF ~mapped THEN Refused("initialiseData", size)
            ELSE Adopted("initialiseData", size, GenBuffer(calls + 1), size, access)

\* A call of initialise (data, read, write, coherent): nothing but the buffer
\* changes.
initialiseData(size, read, write, coherent, generated, mapped) ==
    /\ InitialisedByData(size, read, write, coherent, generated, mapped)
    /\ UNCHANGED << multiBuffering, ndebug, scene, built, rendererVars, unitVars, updateVars, moveVars >>

\* The members after clean() and of the source of a move.
Released ==
    /\ m_buffer' = 0
    /\ m_mapping' = 0
    /\ m_size' = 0
    /\ m_flushable' = FALSE

\* PersistentMappedBuffer::clean
cleanBuffer ==
    /\ Call
    /\ IF m_buffer # 0 THEN Released
       ELSE UNCHANGED << m_buffer, m_mapping, m_size, m_flushable >>
    /\ called' = [ op |-> "clean", arg |-> 0, ret |-> "none", address |-> 0, flush |-> << >> ]
    /\ UNCHANGED << multiBuffering, ndebug, scene, built, rendererVars, unitVars, updateVars, moveVars >>

\* The buffer is the source of a move construction or move assignment.
movedFrom ==
    /\ Call
    /\ Released
    /\ called' = [ op |-> "move", arg |-> 0, ret |-> "none", address |-> 0, flush |-> << >> ]
    /\ UNCHANGED << multiBuffering, ndebug, scene, built, rendererVars, unitVars, updateVars, moveVars >>

\* Mutant of pointerAddress: an invalid index is not sent back to the start.
pointerAddressUnchecked(partition) == m_mapping + partitionOffset(partition)

\* The address PersistentMappedBuffer::pointer returns.
pointerAddress(partition) ==
    IF partition < multiBuffering
    THEN m_mapping + partitionOffset(partition)
    ELSE m_mapping

\* pointer (partition), with its assert (pointer).
pointerCall(partition) ==
    /\ Call
    /\ LET address == m_mapping + partitionOffset(partition) IN
        called' = IF address = 0 /\ ~ndebug
                  THEN [ op |-> "pointer", arg |-> partition, ret |-> "aborted",
                         address |-> 0, flush |-> << >> ]
                  ELSE [ op |-> "pointer", arg |-> partition, ret |-> "returned",
                         address |-> pointerAddress(partition), flush |-> << >> ]
    /\ UNCHANGED << multiBuffering, ndebug, scene, built, rendererVars, unitVars, updateVars, moveVars,
                    m_buffer, m_mapping, m_size, m_flushable >>

\* Mutant of Flushes: the flush is issued whatever the buffer was mapped as.
FlushesAlways == TRUE

\* Whether notifyModifiedDataRange calls glFlushMappedNamedBufferRange.
Flushes == m_flushable

\* notifyModifiedDataRange (partition, range)
notifyPartitionRange(partition, offset, length) ==
    /\ Call
    /\ called' = [ op |-> "notifyPartition", arg |-> partition, ret |-> "none",
                   address |-> 0,
                   flush |-> IF Flushes
                             THEN << m_buffer, partitionOffset(partition) + offset, length >>
                             ELSE << >> ]
    /\ UNCHANGED << multiBuffering, ndebug, scene, built, rendererVars, unitVars, updateVars, moveVars,
                    m_buffer, m_mapping, m_size, m_flushable >>

\* notifyModifiedDataRange (range)
notifyRange(offset, length) ==
    /\ Call
    /\ called' = [ op |-> "notify", arg |-> 0, ret |-> "none", address |-> 0,
                   flush |-> IF Flushes THEN << m_buffer, offset, length >> ELSE << >> ]
    /\ UNCHANGED << multiBuffering, ndebug, scene, built, rendererVars, unitVars, updateVars, moveVars,
                    m_buffer, m_mapping, m_size, m_flushable >>

\* The sizes, indices and ranges the client passes.
Sizes == 0 .. MaxSize
Indices == 0 .. multiBuffering
RangeOffsets == 0 .. 1
RangeLengths == 1 .. 2

BufferNext ==
    \/ \E size \in Sizes, read, coherent, generated, mapped \in BOOLEAN :
            initialiseSize(size, read, coherent, generated, mapped)
    \/ \E size \in Sizes, read, write, coherent, generated, mapped \in BOOLEAN :
            initialiseData(size, read, write, coherent, generated, mapped)
    \/ cleanBuffer
    \/ movedFrom
    \/ \E i \in Indices : pointerCall(i)
    \/ \E i \in Partitions, o \in RangeOffsets, l \in RangeLengths :
            notifyPartitionRange(i, o, l)
    \/ \E o \in RangeOffsets, l \in RangeLengths : notifyRange(o, l)

\* A buffer of any partition count in either build; the Renderer is not used.
BufferInit ==
    /\ multiBuffering \in 1 .. MaxPartitions
    /\ ndebug \in BOOLEAN
    /\ scene = [ directional |-> 0, point |-> 0, spot |-> 0, dynamics |-> << >> ]
    /\ Renderer
    /\ PersistentMappedBuffer
    /\ NothingWritten
    /\ DefaultConstructed
    /\ UnitsConstructed

BufferSpec == BufferInit /\ [][BufferNext]_vars

(***************************************************************************)
(* Ownership of the mapping: two PersistentMappedBuffer objects that are   *)
(* initialised, cleaned, move assigned and move constructed, with the      *)
(* device calls made on their behalf.                                      *)
(***************************************************************************)
\* Mutant of AfterClean: clean() forgets the mapping but keeps the buffer name.
AfterCleanKeepsName(members) ==
    [ members EXCEPT !.mapping = 0, !.size = 0, !.flushable = FALSE ]

\* The members clean() leaves: Buffer::clean sets the name to 0, and the
\* mapping, the size and the flag are reset.
AfterClean(members) == Uninitialised

\* Mutant of MovedFrom: the source of a move keeps its members, as a copy would.
MovedFromKept(members) == members

\* Mutant of MovedFrom: the move does not reset the flush flag of its source.
MovedFromKeepsFlag(members) == [ Uninitialised EXCEPT !.flushable = members.flushable ]

\* The members of the source after a move: Buffer::operator= takes the name,
\* and the mapping, the size and the flag are reset.
MovedFrom(members) == Uninitialised

\* Buffer::isInitialised of the m_buffer member.
IsInitialised(members) == members.buffer # 0

\* The names clean() unmaps and deletes for an object with these members.
CleanReleases(members) == IF IsInitialised(members) THEN << members.buffer >> ELSE << >>

\* The members clean() leaves for an object with these members.
Cleaned(members) == IF IsInitialised(members) THEN AfterClean(members) ELSE members

\* PersistentMappedBuffer::clean on object i.
pmbClean(i) ==
    /\ pmbs' = [ pmbs EXCEPT ![i] = Cleaned(pmbs[i]) ]
    /\ glUnmapped' = glUnmapped \o CleanReleases(pmbs[i])
    /\ glDeleted' = glDeleted \o CleanReleases(pmbs[i])
    /\ moved' = [ op |-> "clean", dst |-> i, src |-> 0,
                  released |-> CleanReleases(pmbs[i]) ]
    /\ UNCHANGED << multiBuffering, ndebug, scene, built, rendererVars, unitVars, bufferVars,
                    updateVars, glGenerated >>

\* PersistentMappedBuffer::initialise (partitionSize, read, coherent) on object
\* i with a buffer name the device gives; mapped is whether the mapping
\* succeeds.  The old buffer is unmapped if there is a mapping and deleted by
\* the move assignment of the Buffer if it is initialised.
pmbInitialise(i, size, coherent, mapped) ==
    /\ glGenerated < MaxBuffers
    /\ glGenerated' = glGenerated + 1
    /\ IF mapped
       THEN /\ pmbs' = [ pmbs EXCEPT ![i] =
                          [ buffer |-> GenBuffer(glGenerated + 1),
                            mapping |-> MapRange(GenBuffer(glGenerated + 1)),
                            size |-> size * multiBuffering,
                            flushable |-> "GL_MAP_FLUSH_EXPLICIT_BIT"
                                              \in getAccessFlags(FALSE, TRUE, coherent) ] ]
            /\ glUnmapped' =
                  glUnmapped \o (IF pmbs[i].mapping # 0 THEN << pmbs[i].buffer >> ELSE << >>)
            /\ glDeleted' = glDeleted \o CleanReleases(pmbs[i])
            /\ moved' = [ op |-> "initialise", dst |-> i, src |-> 0,
                          released |-> CleanReleases(pmbs[i]) ]
       ELSE /\ moved' = [ op |-> "initialiseFailed", dst |-> i, src |-> 0,
                          released |-> << >> ]
            /\ UNCHANGED << pmbs, glUnmapped, glDeleted >>
    /\ UNCHANGED << multiBuffering, ndebug, scene, built, rendererVars, unitVars, bufferVars,
                    updateVars >>

\* PersistentMappedBuffer::initialise (data, read, write, coherent) on object
\* i; size is the size of the data.  Without read and write it returns before
\* a buffer is generated; a size that is 0 or no multiple of Partitions, or a
\* failed mapping, leaves the object as it was.
pmbInitialiseData(i, size, read, write, coherent, mapped) ==
    /\ glGenerated < MaxBuffers
    /\ glGenerated' = IF read \/ write THEN glGenerated + 1 ELSE glGenerated
    /\ IF (read \/ write) /\ ~DataRefused(size) /\ mapped
       THEN /\ pmbs' = [ pmbs EXCEPT ![i] =
                          [ buffer |-> GenBuffer(glGenerated + 1),
                            mapping |-> MapRange(GenBuffer(glGenerated + 1)),
                            size |-> size,
                            flushable |-> "GL_MAP_FLUSH_EXPLICIT_BIT"
                                              \in getAccessFlags(read, write, coherent) ] ]
            /\ glUnmapped' =
                  glUnmapped \o (IF pmbs[i].mapping # 0 THEN << pmbs[i].buffer >> ELSE << >>)
            /\ glDeleted' = glDeleted \o CleanReleases(pmbs[i])
            /\ moved' = [ op |-> "initialiseData", dst |-> i, src |-> 0,
                          released |-> CleanReleases(pmbs[i]) ]
       ELSE /\ moved' = [ op |-> "initialiseDataFailed", dst |-> i, src |-> 0,
                          released |-> << >> ]
            /\ UNCHANGED << pmbs, glUnmapped, glDeleted >>
    /\ UNCHANGED << multiBuffering, ndebug, scene, built, rendererVars, unitVars, bufferVars,
                    updateVars >>

\* operator= (PersistentMappedBuffer&& move): dst = std::move (src).
moveAssign(dst, src) ==
    /\ IF dst # src
       THEN /\ pmbs' = [ pmbs EXCEPT ![dst] = pmbs[src], ![src] = MovedFrom(pmbs[src]) ]
            /\ glUnmapped' = glUnmapped \o CleanReleases(pmbs[dst])
            /\ glDeleted' = glDeleted \o CleanReleases(pmbs[dst])
       ELSE UNCHANGED << pmbs, glUnmapped, glDeleted >>
    /\ moved' = [ op |-> "moveAssign", dst |-> dst, src |-> src,
                  released |-> IF dst # src THEN CleanReleases(pmbs[dst]) ELSE << >> ]
    /\ UNCHANGED << multiBuffering, ndebug, scene, built, rendererVars, unitVars, bufferVars,
                    updateVars, glGenerated >>

\* PersistentMappedBuffer (PersistentMappedBuffer&& move): a new object dst,
\* with the members of a default constructed one, is assigned from src.
moveConstruct(dst, src) ==
    /\ dst # src
    /\ pmbs[dst] = Uninitialised
    /\ pmbs' = [ pmbs EXCEPT ![dst] = pmbs[src], ![src] = MovedFrom(pmbs[src]) ]
    /\ moved' = [ op |-> "moveConstruct", dst |-> dst, src |-> src,
                  released |-> << >> ]
    /\ UNCHANGED << multiBuffering, ndebug, scene, built, rendererVars, unitVars, bufferVars,
                    updateVars, glGenerated, glUnmapped, glDeleted >>

MoveNext ==
    \/ \E i \in Instances : pmbClean(i)
    \/ \E i \in Instances, size \in 1 .. MaxSize, coherent, mapped \in BOOLEAN :
            pmbInitialise(i, size, coherent, mapped)
    \/ \E i \in Instances, size \in 0 .. MaxSize, read, write, coherent, mapped \in BOOLEAN :
            pmbInitialiseData(i, size, read, write, coherent, mapped)
    \/ \E dst, src \in Instances : moveAssign(dst, src)
    \/ \E dst, src \in Instances : moveConstruct(dst, src)

\* Two default constructed buffers in a build of any partition count.
MoveInit ==
    /\ multiBuffering \in 1 .. MaxPartitions
    /\ ndebug = FALSE
    /\ scene = [ directional |-> 0, point |-> 0, spot |-> 0, dynamics |-> << >> ]
    /\ Renderer
    /\ PersistentMappedBuffer
    /\ NothingWritten
    /\ DefaultConstructed
    /\ UnitsConstructed

MoveSpec == MoveInit /\ [][MoveNext]_vars

(***************************************************************************)
(* ShadowMaps: the shadow casting spotlights of a scene, the index of each *)
(* in the array of shadow maps and the view matrices written for them.     *)
(***************************************************************************)
\* What no call on a stand-alone unit changes.
programVars ==
    << multiBuffering, ndebug, scene, built, rendererVars, bufferVars, updateVars, moveVars >>

\* The light IDs of the scenes, and one no spotlight has.
LightIds == 1 .. MaxLights
NoLight == MaxLights + 1

\* The lists of spotlights of a scene: each light has an ID of its own and
\* casts a shadow or not.
SpotLights ==
    { lights \in UNION { [ 1 .. n -> [ id : LightIds, castShadow : BOOLEAN ] ] :
                            n \in 0 .. MaxLights } :
        \A a, b \in DOMAIN lights : lights[a].id = lights[b].id => a = b }

\* A call on the ShadowMaps object is made when the call before it has
\* returned.
ShadowCall ==
    /\ shadowCalled.op = "none"
    /\ UNCHANGED << programVars, geometryVars, wrapperVars, aligned >>

\* The loop of ShadowMaps::initialise over the spotlights left: lights and ids
\* gain every light that casts a shadow.
RECURSIVE AddCasters(_, _, _)
AddCasters(spotlights, lights, ids) ==
    IF spotlights = << >> THEN [ lights |-> lights, ids |-> ids ]
    ELSE LET light == Head(spotlights) IN
         IF light.castShadow
         THEN AddCasters(Tail(spotlights),
                         Append(lights, light.id),
                         [ id \in DOMAIN ids \cup { light.id } |->
                             IF id = light.id THEN Len(lights) ELSE ids[id] ])
         ELSE AddCasters(Tail(spotlights), lights, ids)

\* The name the device gives a framebuffer or texture created while the
\* object of the given name is alive: another name.
NewName(name) == IF name = 1 THEN 2 ELSE 1

\* Mutant of KeptOnFailure: a failed initialise leaves a cleaned object.
CleanedOnFailure(members) == ShadowMaps

\* The members after an initialise that returned false: the temporaries are
\* dropped, no member was assigned.
KeptOnFailure(members) == members

\* ShadowMaps::initialise (spotlights, textureUnit); fbo and maps are whether
\* the framebuffer and the texture array can be created.
shadowInitialise(spotlights, fbo, maps) ==
    /\ ShadowCall
    /\ LET n == NewName(shadowMaps.m_fbo)
           casters == AddCasters(spotlights, << >>, << >>) IN
        IF fbo /\ maps
        THEN /\ shadowMaps' = [ m_fbo |-> n, m_maps |-> n,
                                m_lights |-> casters.lights, m_ids |-> casters.ids ]
             /\ shadowCalled' = [ op |-> "initialise", spotlights |-> spotlights,
                                  arg |-> 0, ret |-> TRUE, written |-> << >> ]
        ELSE /\ shadowMaps' = KeptOnFailure(shadowMaps)
             /\ shadowCalled' = [ op |-> "initialise", spotlights |-> spotlights,
                                  arg |-> 0, ret |-> FALSE, written |-> << >> ]

\* ShadowMaps::clean
shadowClean ==
    /\ ShadowCall
    /\ shadowMaps' = ShadowMaps
    /\ shadowCalled' = [ NoShadowCall EXCEPT !.op = "clean" ]

\* ShadowMaps::operator[]: m_ids.find (lightID), -1 when it is not found.
ShadowIndex(lightID) ==
    IF lightID \in DOMAIN shadowMaps.m_ids THEN shadowMaps.m_ids[lightID] ELSE -1

\* A call of operator[] with a light ID.
shadowIndexCall(lightID) ==
    /\ ShadowCall
    /\ shadowCalled' = [ NoShadowCall EXCEPT !.op = "index", !.arg = lightID,
                                             !.ret = ShadowIndex(lightID) ]
    /\ UNCHANGED shadowMaps

\* Mutant of NextIndex: the index written at is not incremented.
NextIndexKept(currentIndex) == currentIndex

\* pointer[currentIndex++]
NextIndex(currentIndex) == currentIndex + 1

\* The loop of ShadowMaps::setUniforms over the spotlights left, looking for
\* m_lights[currentIndex]: the writes made to pointer, in order, and the final
\* currentIndex.  The indices of the code start at 0, those of m_lights here at 1.
RECURSIVE WriteViews(_, _, _)
WriteViews(spotlights, currentIndex, written) ==
    IF spotlights = << >> THEN [ currentIndex |-> currentIndex, written |-> written ]
    ELSE LET spotlight == Head(spotlights)
             currentID == shadowMaps.m_lights[currentIndex + 1] IN
         IF spotlight.id = currentID
         THEN LET views == Append(written, [ index |-> currentIndex, light |-> spotlight.id ])
              IN IF NextIndex(currentIndex) < Len(shadowMaps.m_lights)
                 THEN WriteViews(Tail(spotlights), NextIndex(currentIndex), views)
                 ELSE [ currentIndex |-> NextIndex(currentIndex), written |-> views ]
         ELSE WriteViews(Tail(spotlights), currentIndex, written)

\* ShadowMaps::setUniforms (scene, pointer, start): what it writes and the
\* range it returns, for a scene with the given spotlights.
setUniforms(spotlights, start) ==
    IF shadowMaps.m_lights = << >>
    THEN [ written |-> << >>, range |-> << 0, 0 >> ]
    ELSE LET views == WriteViews(spotlights, 0, << >>) IN
         [ written |-> views.written, range |-> << start, matrixSize * views.currentIndex >> ]

\* A call of setUniforms.
setUniformsCall(spotlights, start) ==
    /\ ShadowCall
    /\ shadowCalled' = [ op |-> "setUniforms", spotlights |-> spotlights, arg |-> start,
                         ret |-> setUniforms(spotlights, start).range,
                         written |-> setUniforms(spotlights, start).written ]
    /\ UNCHANGED shadowMaps

\* The call returns to its caller.
shadowReturns ==
    /\ shadowCalled.op # "none"
    /\ shadowCalled' = NoShadowCall
    /\ UNCHANGED << programVars, shadowMaps, geometryVars, wrapperVars, aligned >>

ShadowNext ==
    \/ /\ shadowCalled.op = "none"
       /\ \E spotlights \in SpotLights, fbo, maps \in BOOLEAN :
                shadowInitialise(spotlights, fbo, maps)
    \/ shadowClean
    \/ \E lightID \in LightIds \cup { NoLight } : shadowIndexCall(lightID)
    \/ /\ shadowCalled.op = "none"
       /\ \E spotlights \in SpotLights, start \in 0 .. 1 :
                setUniformsCall(spotlights, start)
    \/ shadowReturns

\* A default constructed ShadowMaps.
ShadowInit ==
    /\ multiBuffering = 1
    /\ ndebug = FALSE
    /\ scene = [ directional |-> 0, point |-> 0, spot |-> 0, dynamics |-> << >> ]
    /\ Renderer
    /\ PersistentMappedBuffer
    /\ NothingWritten
    /\ DefaultConstructed
    /\ UnitsConstructed

ShadowSpec == ShadowInit /\ [][ShadowNext]_vars

(***************************************************************************)
(* Properties of the frame loop.                                           *)
(***************************************************************************)
\* The entries written by the step from the current state to the next.
WrittenNow(t) == Written(t)' \ Written(t)

\* A task has run to completion.
Completed(t) == tasks[t] \in { "done", "got" }

\* C1: no update task writes an entry of partition k while the fence of
\* partition k is armed and the device has not reached it.
C1_NoWriteWhileFenceArmed ==
    [][ \A t \in ASyncActions : \A w \in WrittenNow(t) :
            m_syncs[w.part] # "armed" ]_vars

\* C2: every update task of a frame addresses only the partition that was
\* synchronised at the start of the frame, for its writes and for its ranges.
C2_TasksTouchOnlyFramePartition ==
    \A t \in ASyncActions :
        /\ \A w \in Written(t) : w.part = frameK
        /\ taskPart[t].ranges \in { -1, frameK }

\* C3: within a frame the entries written by two different update tasks are
\* disjoint.
C3_TaskWritesDisjoint ==
    \A t1, t2 \in ASyncActions :
        t1 # t2 => Written(t1) \cap Written(t2) = { }

\* C4: when a draw call has been issued, every task whose output it consumes
\* has run to completion and its result has been fetched: the scene and light
\* uniform tasks before the first (static) draw, the dynamic object task
\* before the dynamic multi-draw.
C4_JoinedBeforeDraw ==
    /\ drawn # { } =>
          \A t \in { "sceneUniforms", "directionalLights", "pointLights", "spotLights" } :
              tasks[t] = "got" /\ taskPart[t] # NotRun
    /\ "drawDynamic" \in drawn =>
          /\ tasks["dynamicObjects"] = "got"
          /\ taskPart["dynamicObjects"].ranges # -1

C4_Witness ==
    /\ drawn = { "drawStatic", "drawDynamic" }
    /\ m_multiThreaded
    /\ multiBuffering = MaxPartitions

\* The partition index during and between frames, given the number n of
\* frames completed before the current one.
PartitionFollows(n) ==
    /\ m_partition \in Partitions
    /\ frameK # -1 => frameK = n % multiBuffering
    /\ pc \in { "wait", "bind", "launch", "path", "blit", "arm", "advance" } =>
          m_partition = frameK
    /\ pc \in { "destroy", "return" } => m_partition = (frameK + 1) % multiBuffering
    /\ pc = "idle" => m_partition = n % multiBuffering

C6_TimeoutIsFatal ==
    waitResult = "timeout" =>
        /\ pc = "aborted"
        /\ tasks = NoTasks
        /\ drawn = { }

\* C7: a fence is never armed while it is armed and unsignaled, and an arm
\* attempted on such a fence is fatal.
C7_NeverArmedTwice ==
    /\ pc = "arm" => m_syncs[m_partition] # "armed"
    /\ armFailed => pc = "aborted"

\* What the synchroniser takes the fence to report.
ReportsSignaled(i) == ~NeedsWait(m_syncs[i])

C9_RenderOrder ==
    pc \in { "advance", "destroy", "return" } =>
        /\ \A t \in Launched : Completed(t)
        /\ \A t \in ASyncActions : \A w \in Written(t) : w.part = frameK
        /\ armFailed \/ m_syncs[frameK] # "unarmed"
        /\ pc = "advance" => m_partition = frameK

LaunchAgreesWithModes ==
    \A t \in ASyncActions :
        /\ tasks[t] # "none" <=> t \in Launched
        /\ tasks[t] = "deferred" => ~m_multiThreaded
        /\ tasks[t] \in { "pending", "written" } => m_multiThreaded

C28_RangesCoverWrittenPartition ==
    \A t \in ASyncActions :
        (Completed(t) /\ taskPart[t].buffers # -1) =>
            /\ taskPart[t].ranges \in Partitions
            /\ taskPart[t].ranges = taskPart[t].buffers

\* The future of a task is valid: launched and its result not yet retrieved.
Valid(t) == tasks[t] \notin { "none", "got" }

\* The control thread has to wait for, or run, task t when it waits on it.
Unfinished(t) == tasks[t] \in { "pending", "written", "deferred" }

\* The control thread is at a join of the render path.
AtJoin == pc = "path" /\ RenderPath[step] \in ASyncActions

\* C29: during render() the control thread blocks only at the fence wait at
\* the start of the frame and at the joins for a task whose result an imminent
\* draw call of the render path needs: every join of the path is followed by
\* a draw call, and when the futures are destroyed at the end of the frame no
\* task is left to wait for or to run.
C29_BlocksOnlyAtFenceAndJoins ==
    /\ AtJoin => \E i \in (step + 1) .. Len(RenderPath) : RenderPath[i] \notin ASyncActions
    /\ pc = "destroy" => \A t \in ASyncActions : ~Unfinished(t)

\* C30: the future of each task is consumed at most once per frame: a join of
\* the render path retrieves from a valid future, and the waits at the end of
\* the frame leave alone every future whose result was retrieved and every
\* future that was never launched.
C30_FutureConsumedOnce ==
    /\ [](AtJoin => Valid(RenderPath[step]))
    /\ [][ destroyActions =>
              \A t \in ASyncActions :
                  ~Valid(t) => (tasks'[t] = tasks[t] /\ taskPart'[t] = taskPart[t]) ]_vars

C30_Witness ==
    /\ pc = "return"
    /\ ~m_deferredRender
    /\ tasks["lightDrawCommands"] = "none"
    /\ \A t \in Launched : tasks[t] = "got"

\* C31: every update task launched for a frame has run to completion when
\* the fence of the frame's partition is armed and when the partition index
\* is advanced, and no task body runs once the fence has been armed.
C31_TasksCompleteBeforeArm ==
    [][ /\ (pc \in { "arm", "advance" } /\ pc' # pc) =>
               \A t \in ASyncActions : ~Unfinished(t)
        /\ pc \in { "advance", "destroy" } => taskPart' = taskPart ]_vars

C24_RenderTerminates ==
    /\ [](\A t \in ASyncActions :
            (tasks[t] = "pending" /\ pc # "aborted") => ENABLED taskRuns(t))
    /\ (pc # "idle") ~> (pc = "idle" \/ waitResult = "timeout")

C24_Witness ==
    /\ pc = "return"
    /\ waitResult = "signaled"
    /\ m_multiThreaded
    /\ \A t \in Launched : tasks[t] \in { "done", "got" }
    /\ tasks["dynamicObjects"] = "got"

(***************************************************************************)
(* The update tasks that fill one partition of the dynamic object and      *)
(* light buffers, write by write: updateDynamicObjects with its passes     *)
(* over m_dynamics, updatePointLights and updateSpotlights.                *)
(***************************************************************************)
\* The Mesh of the scene mesh with the given id: where its vertices and
\* elements start in the scene buffers and how many elements it has.
Mesh(id) ==
    [ verticesIndex |-> 4 * (id - 1), elementsIndex |-> 6 * (id - 1), elementCount |-> 6 ]

\* A mesh of the scene with the numbers of its static and dynamic instances.
SceneMesh(id, statics, dynamics) ==
    [ mesh |-> Mesh(id), statics |-> statics, dynamics |-> dynamics ]

\* The meshes of the scenes, in the order m_geometry.getMeshes() iterates them:
\* with dynamic instances only, with static ones too, with static ones only
\* and with no instance at all.
SceneMeshes ==
    { << SceneMesh(1, 0, 1) >>,
      << SceneMesh(1, 0, 1), SceneMesh(2, 1, 2) >>,
      << SceneMesh(1, 1, 2), SceneMesh(2, 2, 0), SceneMesh(3, 0, 1) >>,
      << SceneMesh(1, 0, 0), SceneMesh(2, 0, 1), SceneMesh(3, 1, 2) >> }

\* Mutant of HasDynamic: a mesh is kept when it has any instance.
HasInstance(sceneMesh) == sceneMesh.dynamics + sceneMesh.statics > 0

\* fillDynamicInstances: dynamicIDs.size() > 0
HasDynamic(sceneMesh) == sceneMesh.dynamics > 0

\* fillDynamicInstances: the MeshInstances of m_dynamics, one for each mesh that
\* has a dynamic instance, in the order of the meshes.
fillDynamicInstances(sceneMeshes) ==
    LET kept == SelectSeq(sceneMeshes, HasDynamic) IN
    [ j \in 1 .. Len(kept) |-> [ mesh |-> kept[j].mesh, instances |-> kept[j].dynamics ] ]

\* The scenes the tasks are run on: the meshes, the dynamic instance counts of
\* m_dynamics, with and without point lights and spotlights.
UpdateScenes ==
    { [ directional |-> 1, point |-> p, spot |-> s, meshes |-> ms,
        dynamics |-> [ j \in 1 .. Len(fillDynamicInstances(ms)) |->
                          fillDynamicInstances(ms)[j].instances ] ] :
          p \in 0 .. 1, s \in 0 .. 1, ms \in SceneMeshes }

\* The instances of the scene that are not static, each with the mesh it is of.
NonStaticInstances(sceneMeshes) ==
    { i \in (DOMAIN sceneMeshes) \X (1 .. MaxSize) : i[2] <= sceneMeshes[i[1]].dynamics }

\* buildDynamicObjectBuffers: the meshes the instances that are not static have.
uniqueMeshes(sceneMeshes) == { i[1] : i \in NonStaticInstances(sceneMeshes) }

\* Mutant of dynamicInstanceCount: one entry is allocated for each mesh.
dynamicInstanceCountOfMeshes(sceneMeshes) == Cardinality(uniqueMeshes(sceneMeshes))

\* buildDynamicObjectBuffers: instanceCount, incremented for each instance that is
\* not static; a partition of m_objectTransforms and of m_objectMaterialIDs
\* has that many entries.
dynamicInstanceCount(sceneMeshes) == Cardinality(NonStaticInstances(sceneMeshes))

\* buildDynamicObjectBuffers: m_objectDrawing.capacity, the draw commands of a
\* partition of m_objectDrawing.
capacity(sceneMeshes) == Cardinality(uniqueMeshes(sceneMeshes))

\* Renderer::m_dynamics, as fillDynamicInstances left it.
m_dynamics == fillDynamicInstances(scene.meshes)

\* The number of dynamic instances of the first j meshes of m_dynamics.
InstancesBefore(j) == SeqSum(SubSeq(scene.dynamics, 1, j))

\* Mutant of MeshOf: the running index is not taken across the meshes, every
\* instance is attributed to the first mesh.
MeshOfFirst(i) == 1

\* The mesh the instance of running index i belongs to (indices from 1).
MeshOf(i) ==
    CHOOSE j \in 1 .. Len(scene.dynamics) :
        InstancesBefore(j - 1) < i /\ i <= InstancesBefore(j)

\* The instance forEachDynamicMeshInstance passes with running index i.
InstanceAt(i) == [ mesh |-> MeshOf(i), instance |-> i - InstancesBefore(MeshOf(i) - 1) ]

\* The order the tasks run in under std::launch::deferred: the order of the
\* joins of forwardRender, or of the waits of ~ASyncActions.
DeferredOrder ==
    IF m_deferredRender
    THEN << "dynamicObjects", "pointLights", "spotLights" >>
    ELSE << "pointLights", "spotLights", "dynamicObjects" >>

\* Whether task t can run now: at any time under std::launch::async, after the
\* tasks before it under std::launch::deferred.
CanRun(t) ==
    /\ t \notin finished
    /\ m_multiThreaded \/
          \A i \in 1 .. Len(DeferredOrder) :
              DeferredOrder[i] = t =>
                  \A h \in 1 .. (i - 1) : DeferredOrder[h] \in finished

\* Mutant of NextBaseInstance: the base instance is not incremented.
NextBaseInstanceKept(base, instanceCount) == base

\* addDrawCommand: baseInstance += instanceCount
NextBaseInstance(base, instanceCount) == base + instanceCount

\* addTransform for the next instance of the pass over the instances.
addTransform ==
    /\ CanRun("dynamicObjects")
    /\ m_multiThreaded
    /\ Len(transformBuffer) < SeqSum(scene.dynamics)
    /\ transformBuffer' =
          Append(transformBuffer, InstanceAt(Len(transformBuffer) + 1))
    /\ UNCHANGED << multiBuffering, ndebug, scene, built, rendererVars, unitVars, bufferVars, moveVars,
                    materialIDBuffer, drawCommandBuffer, baseInstance,
                    lightTransformBuffer, ranges, finished, lightResults >>

\* addMaterialID for the next instance of the pass over the instances.
addMaterialID ==
    /\ CanRun("dynamicObjects")
    /\ m_multiThreaded
    /\ Len(materialIDBuffer) < SeqSum(scene.dynamics)
    /\ materialIDBuffer' =
          Append(materialIDBuffer, InstanceAt(Len(materialIDBuffer) + 1))
    /\ UNCHANGED << multiBuffering, ndebug, scene, built, rendererVars, unitVars, bufferVars, moveVars,
                    transformBuffer, drawCommandBuffer, baseInstance,
                    lightTransformBuffer, ranges, finished, lightResults >>

\* addTransformAndMaterialID for the next instance of the current mesh, in the
\* single pass of the single-threaded mode.
addTransformAndMaterialID ==
    /\ CanRun("dynamicObjects")
    /\ ~m_multiThreaded
    /\ Len(drawCommandBuffer) < Len(scene.dynamics)
    /\ Len(transformBuffer) < InstancesBefore(Len(drawCommandBuffer) + 1)
    /\ transformBuffer' =
          Append(transformBuffer, InstanceAt(Len(transformBuffer) + 1))
    /\ materialIDBuffer' =
          Append(materialIDBuffer, InstanceAt(Len(materialIDBuffer) + 1))
    /\ UNCHANGED << multiBuffering, ndebug, scene, built, rendererVars, unitVars, bufferVars, moveVars,
                    drawCommandBuffer, baseInstance, lightTransformBuffer, ranges,
                    finished, lightResults >>

\* addDrawCommand for the next mesh: in the single pass after the instances of
\* the mesh, in the multi-threaded mode in a pass of its own.
addDrawCommand ==
    /\ CanRun("dynamicObjects")
    /\ Len(drawCommandBuffer) < Len(scene.dynamics)
    /\ m_multiThreaded \/
          Len(transformBuffer) = InstancesBefore(Len(drawCommandBuffer) + 1)
    /\ LET mesh == m_dynamics[Len(drawCommandBuffer) + 1].mesh
           instanceCount == m_dynamics[Len(drawCommandBuffer) + 1].instances IN
        /\ drawCommandBuffer' =
              Append(drawCommandBuffer,
                     [ elementCount |-> mesh.elementCount,
                       instanceCount |-> instanceCount,
                       elementsIndex |-> mesh.elementsIndex,
                       verticesIndex |-> mesh.verticesIndex,
                       baseInstance |-> baseInstance ])
        /\ baseInstance' = NextBaseInstance(baseInstance, instanceCount)
    /\ UNCHANGED << multiBuffering, ndebug, scene, built, rendererVars, unitVars, bufferVars, moveVars,
                    transformBuffer, materialIDBuffer, lightTransformBuffer, ranges,
                    finished, lightResults >>

\* updateDynamicObjects returns its ranges once every pass has ended.
returnRanges ==
    /\ CanRun("dynamicObjects")
    /\ Len(drawCommandBuffer) = Len(scene.dynamics)
    /\ Len(transformBuffer) = SeqSum(scene.dynamics)
    /\ Len(materialIDBuffer) = SeqSum(scene.dynamics)
    /\ ranges' = [ drawCommands |-> << m_partition, Len(scene.dynamics) >>,
                   transforms |-> << m_partition, baseInstance >>,
                   materialIDs |-> << m_partition, baseInstance >> ]
    /\ finished' = finished \cup { "dynamicObjects" }
    /\ UNCHANGED << multiBuffering, ndebug, scene, built, rendererVars, unitVars, bufferVars, moveVars,
                    transformBuffer, materialIDBuffer, drawCommandBuffer, baseInstance,
                    lightTransformBuffer, lightResults >>

\* processLightVolumes: transforms[transformOffset + i] for each light i.
WriteLightTransforms(buffer, kind, count, offset) ==
    [ i \in DOMAIN buffer \cup (offset .. (offset + count - 1)) |->
        IF offset <= i /\ i < offset + count
        THEN [ light |-> kind, index |-> i - offset ]
        ELSE buffer[i] ]

\* processLightUniforms: the count and the objects 0 .. count - 1 of the block
\* are written; the range is the count and the objects, from the block's offset.
LightUniformRange(count) ==
    [ count |-> count, objects |-> 0 .. (count - 1), uniforms |-> << "offset", count >>,
      transforms |-> << >> ]

\* The transforms of one partition of m_lightTransforms: the full-screen quad
\* and one for each point light and spotlight (buildLightBuffers).
LightTransformCount == scene.point + scene.spot + 1

\* processLightVolumes: the uniforms as above; the range of the transforms
\* starts transformOffset transforms into the partition and has count of them.
LightVolumeRanges(count, offset) ==
    [ LightUniformRange(count) EXCEPT
        !.transforms = << m_partition * LightTransformCount + offset, count >> ]

\* updatePointLights or updateSpotlights, from start to end.
updateLights(t, count, offset) ==
    /\ CanRun(t)
    /\ lightTransformBuffer' =
          IF m_deferredRender
          THEN WriteLightTransforms(lightTransformBuffer, t, count, offset)
          ELSE lightTransformBuffer
    /\ lightResults' =
          [ lightResults EXCEPT ![t] =
              IF m_deferredRender
              THEN LightVolumeRanges(count, offset)
              ELSE [ LightUniformRange(count) EXCEPT !.transforms = << 0, 0 >> ] ]
    /\ finished' = finished \cup { t }
    /\ UNCHANGED << multiBuffering, ndebug, scene, built, rendererVars, unitVars, bufferVars, moveVars,
                    transformBuffer, materialIDBuffer, drawCommandBuffer, baseInstance,
                    ranges >>

updatePointLights == updateLights("pointLights", scene.point, PointTransformOffset)

updateSpotlights == updateLights("spotLights", scene.spot, SpotTransformOffset)

\* updateLightDrawCommands: the three commands written to the partition of
\* m_lightDrawing, for the quad, the sphere and the cone.
lightCommands(pointLights, spotlights) ==
    LET quads == 1 IN
    << [ shape |-> "quad", instanceCount |-> quads, baseInstance |-> 0 ],
       [ shape |-> "sphere", instanceCount |-> pointLights, baseInstance |-> quads ],
       [ shape |-> "cone", instanceCount |-> spotlights,
         baseInstance |-> quads + pointLights ] >>

UpdateNext ==
    \/ addTransform
    \/ addMaterialID
    \/ addTransformAndMaterialID
    \/ addDrawCommand
    \/ returnRanges
    \/ updatePointLights
    \/ updateSpotlights

\* A frame of an initialised renderer, in either mode, on any partition.
UpdateInit ==
    /\ multiBuffering \in 1 .. MaxPartitions
    /\ ndebug = FALSE
    /\ scene \in UpdateScenes
    /\ initialised = TRUE
    /\ m_partition \in Partitions
    /\ m_syncs = [ i \in Partitions |-> "unarmed" ]
    /\ m_deferredRender \in BOOLEAN
    /\ m_multiThreaded \in BOOLEAN
    /\ boundPartition = m_partition
    /\ pc = "path"
    /\ step = 0
    /\ tasks = NoTasks
    /\ taskPart = NoParts
    /\ drawn = { }
    /\ frameK = m_partition
    /\ waitResult = "none"
    /\ armFailed = FALSE
    /\ frames = 0
    /\ sinceInit = 0
    /\ sinceClean = 0
    /\ built = FailingSteps \ { "none" }
    /\ notified = { }
    /\ PersistentMappedBuffer
    /\ NothingWritten
    /\ DefaultConstructed
    /\ UnitsConstructed

UpdateSpec == UpdateInit /\ [][UpdateNext]_vars

(***************************************************************************)
(* The static geometry: Renderer::buildGeometry collates the static        *)
(* instances of the scene by mesh and Geometry::fillStaticBuffers fills    *)
(* the draw commands, material IDs and transforms from them.               *)
(***************************************************************************)
\* The mesh IDs of the scene.
MeshIds == 1 .. MaxMeshes

\* The instance lists of the scenes: each instance is of a mesh and is static
\* or not; an instance is identified by its place in the list.
InstanceLists ==
    UNION { [ 1 .. n -> [ mesh : MeshIds, static : BOOLEAN ] ] : n \in 0 .. MaxSize }

\* staticInstances[instance.getMeshId()].push_back (instance)
Collated(staticInstances, meshID, instance) ==
    [ id \in DOMAIN staticInstances \cup { meshID } |->
        IF id = meshID
        THEN IF meshID \in DOMAIN staticInstances
             THEN Append(staticInstances[meshID], instance)
             ELSE << instance >>
        ELSE staticInstances[id] ]

\* buildGeometry: the next instance of the scene is looked at and kept if it
\* is static; after the last one fillStaticBuffers is called.
collate ==
    /\ geometry.pc = "collate"
    /\ IF geometry.collated < Len(instances)
       THEN LET i == geometry.collated + 1 IN
            geometry' =
                [ geometry EXCEPT
                    !.collated = i,
                    !.staticInstances =
                        IF instances[i].static
                        THEN Collated(geometry.staticInstances, instances[i].mesh, i)
                        ELSE geometry.staticInstances ]
       ELSE geometry' = [ geometry EXCEPT !.pc = "fill" ]
    /\ UNCHANGED << programVars, shadowVars, instances, wrapperVars, aligned >>

\* The meshes fillStaticBuffers has still to visit: the keys of the map after
\* those of the commands emitted.
MeshesLeft ==
    { id \in DOMAIN geometry.staticInstances :
        \A k \in DOMAIN geometry.commands : geometry.commands[k].mesh # id }

\* Mutant of NextMesh: the map is iterated from its greatest key.
NextMeshDescending == CHOOSE id \in MeshesLeft : \A other \in MeshesLeft : other <= id

\* The mesh the range-for over the std::map visits next: the least key left.
NextMesh == CHOOSE id \in MeshesLeft : \A other \in MeshesLeft : id <= other

\* The inner loop over the instances of the current mesh has ended.
InstancesPushed ==
    IF geometry.commands = << >> THEN TRUE
    ELSE geometry.pushed =
            Len(geometry.staticInstances[geometry.commands[Len(geometry.commands)].mesh])

\* fillStaticBuffers: the draw command of the next mesh is emplaced, its base
\* instance being materialIDs.size().
addStaticCommand ==
    /\ geometry.pc = "fill"
    /\ MeshesLeft # { }
    /\ InstancesPushed
    /\ LET meshID == NextMesh
           mesh == Mesh(meshID) IN
        geometry' =
            [ geometry EXCEPT
                !.commands = Append(@, [ mesh |-> meshID,
                                         elementCount |-> mesh.elementCount,
                                         instanceCount |-> Len(geometry.staticInstances[meshID]),
                                         elementsIndex |-> mesh.elementsIndex,
                                         verticesIndex |-> mesh.verticesIndex,
                                         baseInstance |-> Len(geometry.materialIDs) ]),
                !.pushed = 0 ]
    /\ UNCHANGED << programVars, shadowVars, instances, wrapperVars, aligned >>

\* fillStaticBuffers: the material ID and the transform of the next instance
\* of the current mesh are pushed back.
addStaticInstance ==
    /\ geometry.pc = "fill"
    /\ geometry.commands # << >>
    /\ LET meshID == geometry.commands[Len(geometry.commands)].mesh IN
        /\ geometry.pushed < Len(geometry.staticInstances[meshID])
        /\ LET instance == geometry.staticInstances[meshID][geometry.pushed + 1] IN
            geometry' =
                [ geometry EXCEPT
                    !.materialIDs = Append(@, instance),
                    !.transforms = Append(@, instance),
                    !.pushed = @ + 1 ]
    /\ UNCHANGED << programVars, shadowVars, instances, wrapperVars, aligned >>

\* fillStaticBuffers after the loop: count and capacity are set and the
\* buffers filled.
fillBuffers ==
    /\ geometry.pc = "fill"
    /\ MeshesLeft = { }
    /\ InstancesPushed
    /\ geometry' = [ geometry EXCEPT !.pc = "filled",
                                     !.count = Len(geometry.commands),
                                     !.capacity = Len(geometry.commands) ]
    /\ UNCHANGED << programVars, shadowVars, instances, wrapperVars, aligned >>

GeometryNext ==
    \/ collate
    \/ addStaticCommand
    \/ addStaticInstance
    \/ fillBuffers

\* buildGeometry is called on a scene with any instances.
GeometryInit ==
    /\ multiBuffering = 1
    /\ ndebug = FALSE
    /\ scene = [ directional |-> 0, point |-> 0, spot |-> 0, dynamics |-> << >> ]
    /\ Renderer
    /\ PersistentMappedBuffer
    /\ NothingWritten
    /\ DefaultConstructed
    /\ ShadowMapsConstructed
    /\ WrappersConstructed
    /\ UniformsConstructed
    /\ instances \in InstanceLists
    /\ geometry = NoGeometry

GeometrySpec == GeometryInit /\ [][GeometryNext]_vars

(***************************************************************************)
(* The device-object wrappers: Buffer, Framebuffer, Program and Shader.    *)
(* Each holds the name of one device object, or 0 for none.  The device    *)
(* hands out the names 1, 2, ... in turn and never hands one out twice.    *)
(***************************************************************************)
WrapperKinds == { "Buffer", "Framebuffer", "Program", "Shader" }

\* isInitialised() of a wrapper: it holds a device object.
wrapperIsInitialised(i) == wrappers.ids[i] # 0

\* What clean() hands to glDelete*: the object of an initialised wrapper.
WrapperReleases(i) == IF wrapperIsInitialised(i) THEN << wrappers.ids[i] >> ELSE << >>

\* The device has a name left to hand out.
NamesLeft == device.created < MaxBuffers

\* glGen* or glCreate*: the next name when the device succeeds, 0 when it fails.
Generated(succeeds) == IF succeeds THEN device.created + 1 ELSE 0

\* Buffer::initialise(): clean() first, then glGenBuffers into m_buffer.
bufferInitialise(i, succeeds) ==
    /\ wrappers.kind = "Buffer"
    /\ succeeds => NamesLeft
    /\ wrappers' = [ wrappers EXCEPT !.ids[i] = Generated(succeeds) ]
    /\ device' = [ created |-> IF succeeds THEN device.created + 1 ELSE device.created,
                   deleted |-> device.deleted \o WrapperReleases(i),
                   called |-> IF succeeds THEN "initialise" ELSE "initialiseFailed" ]
    /\ UNCHANGED << programVars, shadowVars, geometryVars, aligned >>

\* Framebuffer::initialise() and Program::initialise(): generate an object,
\* return false when there is none, otherwise clean() and take the new one.
generatedInitialise(i, succeeds) ==
    /\ wrappers.kind \in { "Framebuffer", "Program" }
    /\ succeeds => NamesLeft
    /\ UNCHANGED << programVars, shadowVars, geometryVars, aligned >>
    /\ IF Generated(succeeds) = 0
       THEN /\ device' = [ device EXCEPT !.called = "initialiseFailed" ]
            /\ UNCHANGED wrappers
       ELSE /\ wrappers' = [ wrappers EXCEPT !.ids[i] = Generated(succeeds) ]
            /\ device' = [ created |-> device.created + 1,
                           deleted |-> device.deleted \o WrapperReleases(i),
                           called |-> "initialise" ]

\* Shader::initialise (file, type): create a shader and compile the file into
\* it; when the compilation failed print the log and return false, with no
\* glDeleteShader of the new shader; otherwise clean() and take the new
\* shader.  Nothing compiles into the name 0 of a failed creation.
shaderInitialise(i, succeeds, compiles) ==
    /\ wrappers.kind = "Shader"
    /\ succeeds => NamesLeft
    /\ UNCHANGED << programVars, shadowVars, geometryVars, aligned >>
    /\ LET shaderID == Generated(succeeds)
           compileStatus == shaderID # 0 /\ compiles
       IN  IF ~compileStatus
           THEN /\ device' = [ created |-> IF succeeds THEN shaderID ELSE device.created,
                               deleted |-> device.deleted,
                               called |-> "initialiseFailed" ]
                /\ UNCHANGED wrappers
           ELSE /\ wrappers' = [ wrappers EXCEPT !.ids[i] = shaderID ]
                /\ device' = [ created |-> shaderID,
                               deleted |-> device.deleted \o WrapperReleases(i),
                               called |-> "initialise" ]

\* clean(): delete the object of an initialised wrapper and hold none.
wrapperClean(i) ==
    /\ wrappers' = [ wrappers EXCEPT !.ids[i] = 0 ]
    /\ device' = [ device EXCEPT !.deleted = @ \o WrapperReleases(i),
                                 !.called = "clean" ]
    /\ UNCHANGED << programVars, shadowVars, geometryVars, aligned >>

\* operator= (T&& move): unless it is a self-assignment, clean(), take the
\* object of the source and leave the source holding none.
wrapperMoveAssign(dst, src) ==
    /\ IF dst # src
       THEN /\ wrappers' = [ wrappers EXCEPT !.ids[dst] = wrappers.ids[src],
                                             !.ids[src] = 0 ]
            /\ device' = [ device EXCEPT !.deleted = @ \o WrapperReleases(dst),
                                         !.called = "moveAssign" ]
       ELSE /\ device' = [ device EXCEPT !.called = "moveAssign" ]
            /\ UNCHANGED wrappers
    /\ UNCHANGED << programVars, shadowVars, geometryVars, aligned >>

\* T (T&& move): a new object dst, holding no device object, is assigned
\* from src.
wrapperMoveConstruct(dst, src) ==
    /\ dst # src
    /\ ~wrapperIsInitialised(dst)
    /\ wrappers' = [ wrappers EXCEPT !.ids[dst] = wrappers.ids[src],
                                     !.ids[src] = 0 ]
    /\ device' = [ device EXCEPT !.called = "moveConstruct" ]
    /\ UNCHANGED << programVars, shadowVars, geometryVars, aligned >>

WrapperNext ==
    \/ \E i \in Instances, succeeds \in BOOLEAN : bufferInitialise(i, succeeds)
    \/ \E i \in Instances, succeeds \in BOOLEAN : generatedInitialise(i, succeeds)
    \/ \E i \in Instances, succeeds, compiles \in BOOLEAN :
            shaderInitialise(i, succeeds, compiles)
    \/ \E i \in Instances : wrapperClean(i)
    \/ \E dst, src \in Instances : wrapperMoveAssign(dst, src)
    \/ \E dst, src \in Instances : wrapperMoveConstruct(dst, src)

\* Two default constructed wrappers of any one kind.
WrapperInit ==
    /\ multiBuffering = 1
    /\ ndebug = FALSE
    /\ scene = [ directional |-> 0, point |-> 0, spot |-> 0, dynamics |-> << >> ]
    /\ Renderer
    /\ PersistentMappedBuffer
    /\ NothingWritten
    /\ DefaultConstructed
    /\ ShadowMapsConstructed
    /\ GeometryConstructed
    /\ UniformsConstructed
    /\ wrappers \in { NoWrappers(kind) : kind \in WrapperKinds }
    /\ device = NoDevice

WrapperSpec == WrapperInit /\ [][WrapperNext]_vars

(***************************************************************************)
(* Uniforms::calculateAlignedSize<T>(): the size of a block type rounded   *)
(* to the alignment the device asks of uniform buffer blocks.  size is     *)
(* sizeof (T), alignment the static member Uniforms::alignment.            *)
(***************************************************************************)
\* Mutant of calculateAlignedSize: the padding is added whatever the remainder.
calculateAlignedSizePadded(size, alignment) == (size + alignment) - (size % alignment)

calculateAlignedSize(size, alignment) ==
    LET remainder == size % alignment
    IN  IF remainder # 0 THEN (size + alignment) - (size % alignment) ELSE size

\* The type sizes and the alignments the function is called with.
AlignedInputs ==
    [ size : 1 .. MaxAligned, alignment : 1 .. MaxAligned, called : { FALSE }, ret : { 0 } ]

\* A call of calculateAlignedSize<T>() for the type and alignment chosen.
alignedSizeCall ==
    /\ ~aligned.called
    /\ aligned' = [ aligned EXCEPT !.called = TRUE,
                        !.ret = calculateAlignedSize(aligned.size, aligned.alignment) ]
    /\ UNCHANGED << programVars, shadowVars, geometryVars, wrapperVars >>

AlignedNext == alignedSizeCall

\* A type of any size and a device of any alignment, both positive.
AlignedInit ==
    /\ multiBuffering = 1
    /\ ndebug = FALSE
    /\ scene = [ directional |-> 0, point |-> 0, spot |-> 0, dynamics |-> << >> ]
    /\ Renderer
    /\ PersistentMappedBuffer
    /\ NothingWritten
    /\ DefaultConstructed
    /\ ShadowMapsConstructed
    /\ GeometryConstructed
    /\ WrappersConstructed
    /\ aligned \in AlignedInputs

AlignedSpec == AlignedInit /\ [][AlignedNext]_vars

\* Every task of the frame has returned.
UpdateDone == finished = { "dynamicObjects", "pointLights", "spotLights" }

\* The sequence of the values f(1), ..., f(n).
RECURSIVE SeqOf(_, _)
SeqOf(f(_), n) == IF n = 0 THEN << >> ELSE Append(SeqOf(f, n - 1), f(n))

\* The draw command of mesh j when the base instances accumulate the counts.
DrawCommandOf(j) ==
    [ elementCount |-> m_dynamics[j].mesh.elementCount,
      instanceCount |-> scene.dynamics[j],
      elementsIndex |-> m_dynamics[j].mesh.elementsIndex,
      verticesIndex |-> m_dynamics[j].mesh.verticesIndex,
      baseInstance |-> InstancesBefore(j - 1) ]

\* The light transforms when the tasks run in the order of the deferred policy:
\* updatePointLights, then updateSpotlights.
DeferredLightTransforms ==
    IF m_deferredRender
    THEN WriteLightTransforms(
             WriteLightTransforms([ i \in 0 .. (scene.point + scene.spot) |-> << >> ],
                                  "pointLights", scene.point, PointTransformOffset),
             "spotLights", scene.spot, SpotTransformOffset)
    ELSE [ i \in 0 .. (scene.point + scene.spot) |-> << >> ]

\* The dynamic object buffers and ranges are the ones of the single pass.
DynamicObjectsAgree ==
    /\ transformBuffer = SeqOf(InstanceAt, SeqSum(scene.dynamics))
    /\ materialIDBuffer = SeqOf(InstanceAt, SeqSum(scene.dynamics))
    /\ drawCommandBuffer = SeqOf(DrawCommandOf, Len(scene.dynamics))
    /\ ranges = [ drawCommands |-> << m_partition, Len(scene.dynamics) >>,
                  transforms |-> << m_partition, SeqSum(scene.dynamics) >>,
                  materialIDs |-> << m_partition, SeqSum(scene.dynamics) >> ]

\* C11: when the tasks of a frame have returned, the contents of every buffer
\* of the partition and the ranges reported are the ones the single-threaded
\* policy produces, under both policies and in every interleaving.
C11_PoliciesAgree ==
    UpdateDone =>
        /\ DynamicObjectsAgree
        /\ lightTransformBuffer = DeferredLightTransforms

\* C12: the draw command of the j-th dynamic mesh has the instance count n_j and
\* the base instance n_1 + ... + n_(j-1), so the ranges of the meshes are
\* contiguous, do not overlap and cover [0, total dynamic instances); in both
\* threading modes.
C12_BaseInstancesPartition ==
    /\ \A j \in 1 .. Len(drawCommandBuffer) :
          /\ drawCommandBuffer[j].instanceCount = scene.dynamics[j]
          /\ drawCommandBuffer[j].baseInstance = InstancesBefore(j - 1)
    /\ baseInstance = InstancesBefore(Len(drawCommandBuffer))
    /\ "dynamicObjects" \in finished =>
          /\ Len(drawCommandBuffer) = Len(scene.dynamics)
          /\ ranges.transforms = << m_partition, SeqSum(scene.dynamics) >>

C12_Witness ==
    /\ "dynamicObjects" \in finished
    /\ m_multiThreaded
    /\ scene.dynamics = << 1, 2 >>
    /\ drawCommandBuffer[2].baseInstance = 1

\* The positions in the scene's meshes of the meshes with a dynamic instance,
\* in increasing order.
RECURSIVE DynamicMeshes(_)
DynamicMeshes(n) ==
    IF n = 0 THEN << >>
    ELSE IF scene.meshes[n].dynamics > 0
         THEN Append(DynamicMeshes(n - 1), n)
         ELSE DynamicMeshes(n - 1)

\* C25: the dynamic-object task writes one draw command for each mesh with at
\* least one dynamic instance and none for a mesh with only static or no
\* instances; the reported draw count is the number of such meshes; the
\* command carries the element count, element offset and vertex offset of its
\* mesh and the number of its dynamic instances; the commands are in the order
\* of the meshes, whatever the threading mode and the interleaving.
C25_OneDrawCommandPerDynamicMesh ==
    LET dynamicMeshes == DynamicMeshes(Len(scene.meshes)) IN
    /\ Len(drawCommandBuffer) <= Len(dynamicMeshes)
    /\ \A j \in 1 .. Len(drawCommandBuffer) :
          LET sceneMesh == scene.meshes[dynamicMeshes[j]] IN
          /\ drawCommandBuffer[j].elementCount = sceneMesh.mesh.elementCount
          /\ drawCommandBuffer[j].elementsIndex = sceneMesh.mesh.elementsIndex
          /\ drawCommandBuffer[j].verticesIndex = sceneMesh.mesh.verticesIndex
          /\ drawCommandBuffer[j].instanceCount = sceneMesh.dynamics
    /\ "dynamicObjects" \in finished =>
          /\ Len(drawCommandBuffer) = Len(dynamicMeshes)
          /\ ranges.drawCommands = << m_partition, Len(dynamicMeshes) >>

C25_Witness ==
    /\ "dynamicObjects" \in finished
    /\ Len(scene.meshes) = 3
    /\ scene.meshes[2].dynamics = 0
    /\ scene.meshes[2].statics > 0
    /\ Len(drawCommandBuffer) = 2
    /\ drawCommandBuffer[2].verticesIndex = Mesh(3).verticesIndex

\* A step that deletes or replaces the ring buffers: clean(), or an initialise()
\* that gets to rebuild the dynamic object buffers, the light buffers or the
\* uniforms.
ReleasesBuffers ==
    \/ clean
    \/ \E failing \in FailingSteps :
          /\ initialise(failing)
          /\ StepsBuilt(failing) \cap { "dynamicObjectBuffers", "lightBuffers", "uniforms" }
                # { }

\* C15: the ring buffers are never cleaned or replaced while the fence of one of
\* their partitions is armed and the device has not reached it.
C15_NoReleaseWhileFenceArmed ==
    [][ ReleasesBuffers => \A i \in Partitions : m_syncs[i] # "armed" ]_vars

\* The state clean() leaves the renderer in.
CleanState ==
    /\ built = { }
    /\ \A i \in Partitions : m_syncs[i] = "unarmed"
    /\ m_deferredRender

\* C16: an initialise() in which a build step fails returns false and leaves the
\* renderer in the state clean() leaves it in.
C16_FailedInitialiseCleans ==
    [][ \A failing \in FailingSteps :
            (initialise(failing) /\ ~initialised') => CleanState' ]_vars

\* C17: a scene without dynamic instances, or without lights, is not an error:
\* when the device refuses nothing, initialise() succeeds for every scene.
C17_DegenerateSceneInitialises ==
    [][ initialise("none") => initialised' ]_vars

\* C20: the ranges of a task are flush-notified after the task has completed
\* and its result was fetched, and before the draw call that consumes them: the
\* scene and light uniforms before the first draw, the dynamic object ranges
\* before the dynamic multi-draw.
C20_NotifiedBeforeDraw ==
    /\ \A t \in notified : tasks[t] = "got" /\ taskPart[t] # NotRun
    /\ drawn # { } =>
          { "sceneUniforms", "directionalLights", "pointLights", "spotLights" }
              \subseteq notified
    /\ "drawDynamic" \in drawn => "dynamicObjects" \in notified

C20_Witness ==
    /\ "drawDynamic" \in drawn
    /\ "dynamicObjects" \in notified
    /\ ~m_multiThreaded
    /\ frameK = MaxPartitions - 1

(***************************************************************************)
(* Properties of PersistentMappedBuffer.                                   *)
(***************************************************************************)
\* C13: the partitions of a successfully initialised buffer tile [0, S): S is
\* divisible by P, partition 0 starts at 0, each partition ends where the next
\* starts and the last one ends at S, after either initialise overload.
C13_PartitionsTile ==
    m_buffer # 0 =>
        /\ m_size % multiBuffering = 0
        /\ partitionOffset(0) = 0
        /\ \A i \in 0 .. (multiBuffering - 2) :
              partitionOffset(i) + partitionSize = partitionOffset(i + 1)
        /\ partitionOffset(multiBuffering - 1) + partitionSize = m_size

C13_Witness ==
    /\ called.op = "initialiseData"
    /\ called.ret = "true"
    /\ multiBuffering = MaxPartitions
    /\ m_size > 0

\* The members of the buffer are the ones of before the call.
MembersKept == UNCHANGED << m_buffer, m_mapping, m_size, m_flushable >>

\* The call has replaced the buffer and the mapping by new ones.
MembersReplaced ==
    /\ m_buffer' \notin { 0, m_buffer }
    /\ m_mapping' \notin { 0, m_mapping }

\* The sizes a step can be a call of the initialise overload op with: the size
\* the call recorded, none if the step is a call of another operation.
InitialisedWith(op) == IF called'.op = op THEN Sizes \cap { called'.arg } ELSE { }

\* C14: initialise returns false exactly when the partition size is 0, the
\* buffer cannot be created or mapped, no access is requested (data overload),
\* or the data size is 0 or not divisible by P (data overload); a failed call
\* leaves every member as it was and a successful one replaces the buffer and
\* the mapping.
C14_FailedInitialiseKeepsObject ==
    [][ /\ \A size \in InitialisedWith("initialiseSize") :
            \A read, coherent, generated, mapped \in BOOLEAN :
              InitialisedBySize(size, read, coherent, generated, mapped) =>
                  /\ called'.ret = "false" <=> (size = 0 \/ ~generated \/ ~mapped)
                  /\ called'.ret = "false" => MembersKept
                  /\ called'.ret = "true" => (MembersReplaced /\ m_size' > 0)
        /\ \A size \in InitialisedWith("initialiseData") :
            \A read, write, coherent, generated, mapped \in BOOLEAN :
              InitialisedByData(size, read, write, coherent, generated, mapped) =>
                  /\ called'.ret = "false" <=>
                        \/ ~read /\ ~write
                        \/ ~generated
                        \/ ~mapped
                        \/ size = 0
                        \/ size % multiBuffering # 0
                  /\ called'.ret = "false" => MembersKept
                  /\ called'.ret = "true" => (MembersReplaced /\ m_size' = size) ]_vars

C14_Witness ==
    /\ called.op = "initialiseSize"
    /\ called.arg = 0
    /\ called.ret = "false"
    /\ m_buffer # 0
    /\ m_size > 0

\* What the claim says of the address returned for the index the call was given.
PointerContract ==
    /\ called.ret = "returned"
    /\ called.arg < multiBuffering =>
          called.address = m_mapping + called.arg * partitionSize
    /\ called.arg >= multiBuffering => called.address = m_mapping
    /\ m_mapping <= called.address
    /\ called.address < m_mapping + m_size

\* C18 as stated: pointer(i) returns base + i * partitionSize() for i in [0, P),
\* the base for i >= P, and never an address outside [base, base + S).
C18_PointerInBuffer == called.op = "pointer" => PointerContract

\* C18 as amended: the same, for a buffer that is initialised; on a buffer that
\* is not mapped pointer() fails its assert or returns nullptr.
C18_PointerInMappedBuffer ==
    (called.op = "pointer" /\ m_mapping # 0) => PointerContract

C18_Witness ==
    /\ called.op = "pointer"
    /\ called.arg = multiBuffering
    /\ multiBuffering = MaxPartitions
    /\ called.address = m_mapping
    /\ m_size > multiBuffering

\* The partitions a step can be a call of notifyModifiedDataRange (partition,
\* range) with.
NotifiedWith ==
    IF called'.op = "notifyPartition" THEN Partitions \cap { called'.arg } ELSE { }

\* C19: notifyModifiedDataRange flushes if and only if the buffer was
\* initialised non-coherent with write access (not on a coherent, never
\* initialised, cleaned or moved-from buffer); the partition overload flushes
\* from partitionOffset(partition) + range.offset, the absolute overload from
\* range.offset, both over range.length.
C19_FlushOnlyWhenFlushable ==
    /\ [](m_buffer = 0 => ~m_flushable)
    /\ [][ /\ \A size \in InitialisedWith("initialiseSize") :
               \A read, coherent, generated, mapped \in BOOLEAN :
                 (InitialisedBySize(size, read, coherent, generated, mapped)
                      /\ called'.ret = "true") => (m_flushable' <=> ~coherent)
           /\ \A size \in InitialisedWith("initialiseData") :
               \A read, write, coherent, generated, mapped \in BOOLEAN :
                 (InitialisedByData(size, read, write, coherent, generated, mapped)
                      /\ called'.ret = "true") => (m_flushable' <=> (~coherent /\ write))
           /\ (cleanBuffer \/ movedFrom) => ~m_flushable'
           /\ \A i \in NotifiedWith, o \in RangeOffsets, l \in RangeLengths :
                 notifyPartitionRange(i, o, l) =>
                     called'.flush =
                         IF m_flushable
                         THEN << m_buffer, i * (m_size \div multiBuffering) + o, l >>
                         ELSE << >>
           /\ \A o \in RangeOffsets, l \in RangeLengths :
                 notifyRange(o, l) =>
                     called'.flush = IF m_flushable THEN << m_buffer, o, l >> ELSE << >>
         ]_vars

C19_Witness ==
    /\ called.op = "notifyPartition"
    /\ called.arg = multiBuffering - 1
    /\ multiBuffering = MaxPartitions
    /\ m_flushable
    /\ called.flush # << >>

\* The per-instance buffer holds instance i of mesh j at the index the draw
\* command of the mesh gives it, baseInstance_j + i (the sequence starts at 1,
\* the buffer at 0).
AtBaseInstance(buffer) ==
    \A k \in DOMAIN buffer :
        buffer[k].mesh \in DOMAIN drawCommandBuffer =>
            LET command == drawCommandBuffer[buffer[k].mesh] IN
            /\ buffer[k].instance \in 1 .. command.instanceCount
            /\ k - 1 = command.baseInstance + (buffer[k].instance - 1)

\* Every instance the draw commands cover has its entry in the buffer.
CoversDrawCommands(buffer) ==
    \A j \in DOMAIN drawCommandBuffer :
        \A i \in 1 .. drawCommandBuffer[j].instanceCount :
            /\ drawCommandBuffer[j].baseInstance + i \in DOMAIN buffer
            /\ buffer[drawCommandBuffer[j].baseInstance + i] = [ mesh |-> j, instance |-> i ]

\* C26: the transform and the material ID of instance i of mesh j are written
\* at index baseInstance_j + i of the partition: the running index of the
\* per-instance passes coincides with the baseInstance ranges of the draw
\* commands, in both threading modes and at every point of the passes.
C26_InstanceIndexMatchesBaseInstance ==
    /\ AtBaseInstance(transformBuffer)
    /\ AtBaseInstance(materialIDBuffer)
    /\ "dynamicObjects" \in finished =>
          /\ CoversDrawCommands(transformBuffer)
          /\ CoversDrawCommands(materialIDBuffer)

C26_Witness ==
    /\ "dynamicObjects" \in finished
    /\ m_multiThreaded
    /\ Len(drawCommandBuffer) = 2
    /\ drawCommandBuffer[2].baseInstance = 2
    /\ transformBuffer[3] = [ mesh |-> 2, instance |-> 1 ]
    /\ materialIDBuffer[3] = [ mesh |-> 2, instance |-> 1 ]

\* What a step of a light task with the given lights writes and returns: in a
\* deferred render the uniform entries 0 .. count - 1 and the transforms
\* transformOffset .. transformOffset + count - 1 and no other; in a forward
\* render the uniform entries only, and the transform range { 0, 0 }.
LightTaskWrites(t, count) ==
    /\ lightResults'[t].count = count
    /\ lightResults'[t].objects = 0 .. (count - 1)
    /\ lightTransformBuffer'[0] = lightTransformBuffer[0]
    /\ IF m_deferredRender
       THEN /\ \A i \in 0 .. (count - 1) :
                  lightTransformBuffer'[transformOffset + i] = [ light |-> t, index |-> i ]
            /\ \A e \in DOMAIN lightTransformBuffer :
                  e \notin transformOffset .. (transformOffset + count - 1) =>
                      lightTransformBuffer'[e] = lightTransformBuffer[e]
            /\ lightResults'[t].transforms =
                  << m_partition * LightTransformCount + transformOffset, count >>
       ELSE /\ UNCHANGED lightTransformBuffer
            /\ lightResults'[t].transforms = << 0, 0 >>

\* C27: a light task writes, for each light i, the uniform entry i and, when it
\* writes light volumes, the transform transformOffset + i with transformOffset
\* = 1, so that transform 0 (the full-screen quad) is never written by a light
\* task; in the forward path it writes no transform, leaves the transform
\* buffer unchanged and reports the transform range of offset 0 and length 0.
C27_LightVolumesAfterQuad ==
    /\ [](lightTransformBuffer[0] = << >>)
    /\ [][ /\ updatePointLights => LightTaskWrites("pointLights", scene.point)
           /\ updateSpotlights => LightTaskWrites("spotLights", scene.spot) ]_vars

C27_Witness ==
    /\ finished = { "pointLights" }
    /\ m_deferredRender
    /\ scene.point = 1
    /\ lightResults["pointLights"].objects = { 0 }
    /\ lightTransformBuffer[1] = [ light |-> "pointLights", index |-> 0 ]
    /\ lightTransformBuffer[0] = << >>

\* The instances command c of the light draw commands covers.
LightInstances(c) == c.baseInstance .. (c.baseInstance + c.instanceCount - 1)

\* The light task whose transforms the instances of a shape read.
LightsOf(shape) == IF shape = "sphere" THEN "pointLights" ELSE "spotLights"

\* C32: the light draw commands are the quad (1 instance from 0), the sphere
\* (one instance for each point light, from 1) and the cone (one for each
\* spotlight, from 1 + point lights); their instances tile 0 .. point lights +
\* spotlights, and after the light tasks of a deferred frame instance i of the
\* sphere and of the cone finds the transform of point light i and of
\* spotlight i at its index of the partition.
C32_LightCommandsMatchTransforms ==
    LET commands == lightCommands(scene.point, scene.spot) IN
    (UpdateDone /\ m_deferredRender) =>
        /\ Len(commands) = lightDrawCount
        /\ LightInstances(commands[1]) = { 0 }
        /\ LightInstances(commands[2]) = 1 .. scene.point
        /\ LightInstances(commands[3]) = (1 + scene.point) .. (scene.point + scene.spot)
        /\ \A c \in 2 .. 3 : \A i \in 0 .. (commands[c].instanceCount - 1) :
              lightTransformBuffer[commands[c].baseInstance + i] =
                  [ light |-> LightsOf(commands[c].shape), index |-> i ]

\* C33: with the scene as it was at initialise(), no task writes past the end
\* of its partition: the draw commands written, and the draw count reported,
\* do not exceed the capacity buildDynamicObjectBuffers allocated, the
\* transforms and material IDs written do not exceed the dynamic instances
\* allocated, and every light transform written is at an index below
\* 1 + point lights + spotlights.
C33_WritesWithinPartition ==
    /\ Len(drawCommandBuffer) <= capacity(scene.meshes)
    /\ Len(transformBuffer) <= dynamicInstanceCount(scene.meshes)
    /\ Len(materialIDBuffer) <= dynamicInstanceCount(scene.meshes)
    /\ "dynamicObjects" \in finished =>
          /\ ranges.drawCommands[2] <= capacity(scene.meshes)
          /\ ranges.transforms[2] <= dynamicInstanceCount(scene.meshes)
          /\ ranges.materialIDs[2] <= dynamicInstanceCount(scene.meshes)
    /\ DOMAIN lightTransformBuffer \subseteq 0 .. (scene.point + scene.spot)

C33_Witness ==
    /\ UpdateDone
    /\ m_deferredRender
    /\ Len(drawCommandBuffer) = capacity(scene.meshes)
    /\ Len(transformBuffer) = dynamicInstanceCount(scene.meshes)
    /\ dynamicInstanceCount(scene.meshes) = 3
    /\ scene.point = 1
    /\ scene.spot = 1
    /\ lightTransformBuffer[1] # << >>

(***************************************************************************)
(* Properties of the ownership of the mapping.                             *)
(***************************************************************************)
\* No element of the sequence occurs twice.
NoRepeats(names) ==
    \A a, b \in DOMAIN names : names[a] = names[b] => a = b

\* C21: clean() on an uninitialised buffer changes nothing and releases
\* nothing; after any clean() the buffer is uninitialised with a null mapping,
\* size 0 and the flush flag false; no buffer name is unmapped or deleted a
\* second time, so a repeated clean() releases nothing again.
C21_CleanIdempotent ==
    /\ [](NoRepeats(glDeleted) /\ NoRepeats(glUnmapped))
    /\ [][ \A i \in Instances :
              pmbClean(i) =>
                  /\ pmbs'[i] = Uninitialised
                  /\ ~IsInitialised(pmbs[i]) =>
                        UNCHANGED << pmbs, glDeleted, glUnmapped >>
                  /\ Cleaned(Cleaned(pmbs[i])) = Cleaned(pmbs[i])
                  /\ CleanReleases(pmbs'[i]) = << >> ]_vars

C21_Witness ==
    /\ moved.op = "clean"
    /\ moved.released = << >>
    /\ glGenerated = 1
    /\ glDeleted = << 1 >>
    /\ glUnmapped = << 1 >>
    /\ pmbs = [ i \in Instances |-> Uninitialised ]

\* A mapping or a live buffer name is held by at most one object, and a name
\* an object holds has not been deleted.
SingleOwner ==
    /\ \A i, j \in Instances :
          (i # j /\ IsInitialised(pmbs[i])) =>
              /\ pmbs[i].buffer # pmbs[j].buffer
              /\ pmbs[i].mapping # pmbs[j].mapping
    /\ \A i \in Instances :
          /\ IsInitialised(pmbs[i]) =>
                /\ pmbs[i].mapping # 0
                /\ \A a \in DOMAIN glDeleted : glDeleted[a] # pmbs[i].buffer
          /\ ~IsInitialised(pmbs[i]) => pmbs[i] = Uninitialised

\* C22: a move hands buffer, mapping, size and flush flag to the destination
\* after releasing what the destination held, and leaves the source
\* uninitialised; self-assignment changes nothing; after any sequence of
\* moves, initialises and cleans a mapping is held by at most one object.
C22_MoveTransfersOwnership ==
    /\ []SingleOwner
    /\ [][ \A dst, src \in Instances :
              /\ moveAssign(dst, src) =>
                    IF dst # src
                    THEN /\ pmbs'[dst] = pmbs[src]
                         /\ pmbs'[src] = Uninitialised
                         /\ glDeleted' = glDeleted \o CleanReleases(pmbs[dst])
                         /\ glUnmapped' = glUnmapped \o CleanReleases(pmbs[dst])
                    ELSE UNCHANGED << pmbs, glDeleted, glUnmapped >>
              /\ moveConstruct(dst, src) =>
                    /\ pmbs'[dst] = pmbs[src]
                    /\ pmbs'[src] = Uninitialised
                    /\ UNCHANGED << glDeleted, glUnmapped >> ]_vars

C22_Witness ==
    /\ moved.op = "moveAssign"
    /\ moved.dst # moved.src
    /\ moved.released # << >>
    /\ IsInitialised(pmbs[moved.dst])
    /\ pmbs[moved.src] = Uninitialised

\* The members of a ring buffer agree with one another.
Consistent(members) ==
    /\ IsInitialised(members) <=> members.mapping # 0
    /\ IsInitialised(members) <=> members.size > 0
    /\ members.size % multiBuffering = 0
    /\ members.flushable => IsInitialised(members)

\* C35: after any sequence of initialise, clean and move calls on ring
\* buffers, each has consistent members: its buffer object is initialised
\* exactly when its mapping is not null and exactly when its size is greater
\* than 0, the size is a multiple of the partition count, and the flush flag
\* is set only when the buffer is initialised.
C35_MembersConsistent == \A i \in Instances : Consistent(pmbs[i])

C35_Witness ==
    /\ moved.op = "moveAssign"
    /\ moved.dst # moved.src
    /\ multiBuffering = 2
    /\ pmbs[moved.dst].size = 2
    /\ pmbs[moved.dst].flushable
    /\ pmbs[moved.dst].mapping # 0
    /\ pmbs[moved.src] = Uninitialised
    /\ moved.released # << >>

(***************************************************************************)
(* Properties of ShadowMaps.                                               *)
(***************************************************************************)
\* The first n registered shadow casters occur, in their order, among the
\* spotlights.
FoundInOrder(spotlights, n) ==
    \E f \in [ 1 .. n -> DOMAIN spotlights ] :
        /\ \A a, b \in 1 .. n : a < b => f[a] < f[b]
        /\ \A a \in 1 .. n : spotlights[f[a]].id = shadowMaps.m_lights[a]

\* C36: setUniforms writes nothing and returns the range (0, 0) when no
\* shadow caster is registered; otherwise it writes one view matrix for each
\* registered caster it finds among the spotlights of the scene, at the
\* indices 0, 1, ... in the order of registration, never at an index that is
\* not below the number of registered casters, and returns the range from
\* start of the size of the matrices written.
C36_SetUniformsWrites ==
    shadowCalled.op = "setUniforms" =>
        LET written == shadowCalled.written
            shadowCasters == Len(shadowMaps.m_lights) IN
        IF shadowCasters = 0
        THEN written = << >> /\ shadowCalled.ret = << 0, 0 >>
        ELSE /\ \A k \in DOMAIN written :
                  /\ written[k].index = k - 1
                  /\ written[k].index < shadowCasters
                  /\ written[k].light = shadowMaps.m_lights[k]
             /\ FoundInOrder(shadowCalled.spotlights, Len(written))
             /\ Len(written) < shadowCasters =>
                   ~FoundInOrder(shadowCalled.spotlights, Len(written) + 1)
             /\ shadowCalled.ret = << shadowCalled.arg, matrixSize * Len(written) >>

C36_Witness ==
    /\ shadowCalled.op = "setUniforms"
    /\ Len(shadowMaps.m_lights) = 3
    /\ Len(shadowCalled.written) = 2
    /\ Len(shadowCalled.spotlights) = 3
    /\ shadowCalled.ret = << 1, 2 * matrixSize >>

\* Whether a spotlight casts a shadow.
CastsShadow(light) == light.castShadow

\* The IDs of the spotlights of the list that cast a shadow, in list order.
ShadowCasters(spotlights) ==
    LET casters == SelectSeq(spotlights, CastsShadow) IN
    [ k \in DOMAIN casters |-> casters[k].id ]

\* The index of a light ID among the registered shadow casters, or -1.
DenseIndex(lightID) ==
    IF \E k \in DOMAIN shadowMaps.m_lights : shadowMaps.m_lights[k] = lightID
    THEN (CHOOSE k \in DOMAIN shadowMaps.m_lights : shadowMaps.m_lights[k] = lightID) - 1
    ELSE -1

\* C37: a successful initialise registers the spotlights of the list that cast
\* a shadow, in list order, under the indices 0 .. n - 1; operator[] returns
\* that index for a registered light and -1 for any other light ID; a failed
\* initialise returns false and leaves the framebuffer, the maps, the light
\* list and the index map as they were.
C37_InitialiseIndexesCasters ==
    /\ [](\A lightID \in LightIds \cup { NoLight } : ShadowIndex(lightID) = DenseIndex(lightID))
    /\ [](shadowCalled.op = "index" => shadowCalled.ret = DenseIndex(shadowCalled.arg))
    /\ [][ (shadowCalled.op = "none" /\ shadowCalled'.op = "initialise") =>
              IF shadowCalled'.ret
              THEN /\ shadowMaps'.m_lights = ShadowCasters(shadowCalled'.spotlights)
                   /\ shadowMaps'.m_fbo # 0
                   /\ shadowMaps'.m_maps # 0
              ELSE shadowMaps' = shadowMaps ]_vars

C37_Witness ==
    /\ shadowCalled.op = "initialise"
    /\ shadowCalled.ret = FALSE
    /\ shadowCalled.spotlights # << >>
    /\ shadowMaps.m_fbo # 0
    /\ Len(shadowMaps.m_lights) = 2
    /\ ShadowIndex(shadowMaps.m_lights[2]) = 1

(***************************************************************************)
(* Properties of the static geometry.                                      *)
(***************************************************************************)
\* The static instances of the scene that are of the given mesh.
StaticOf(meshID) ==
    { i \in DOMAIN instances : instances[i].static /\ instances[i].mesh = meshID }

\* The meshes of the scene with a static instance.
StaticMeshes == { meshID \in MeshIds : StaticOf(meshID) # { } }

\* The static instances of the meshes with a lesser ID.
StaticBefore(meshID) ==
    UNION { StaticOf(other) : other \in { id \in MeshIds : id < meshID } }

\* C38: fillStaticBuffers emits one draw command for each mesh with a static
\* instance, in ascending order of the mesh IDs, each with the number of the
\* static instances of its mesh and, as its base instance, the number of
\* static instances of the meshes before it, so that the instance ranges tile
\* 0 .. total static instances; the i-th material ID and the i-th transform are
\* of the same instance, an instance of the mesh whose range holds i; count and
\* capacity are the number of commands.
C38_StaticCommandsTile ==
    geometry.pc = "filled" =>
        LET commands == geometry.commands IN
        /\ { commands[k].mesh : k \in DOMAIN commands } = StaticMeshes
        /\ Len(commands) = Cardinality(StaticMeshes)
        /\ \A a, b \in DOMAIN commands : a < b => commands[a].mesh < commands[b].mesh
        /\ \A k \in DOMAIN commands :
              /\ commands[k].instanceCount = Cardinality(StaticOf(commands[k].mesh))
              /\ commands[k].baseInstance = Cardinality(StaticBefore(commands[k].mesh))
              /\ commands[k].baseInstance =
                    IF k = 1 THEN 0
                    ELSE commands[k - 1].baseInstance + commands[k - 1].instanceCount
              /\ commands[k].elementCount = Mesh(commands[k].mesh).elementCount
              /\ commands[k].elementsIndex = Mesh(commands[k].mesh).elementsIndex
              /\ commands[k].verticesIndex = Mesh(commands[k].mesh).verticesIndex
              /\ \A i \in 1 .. commands[k].instanceCount :
                    geometry.materialIDs[commands[k].baseInstance + i]
                        \in StaticOf(commands[k].mesh)
        /\ Len(geometry.materialIDs) = Cardinality(UNION { StaticOf(id) : id \in MeshIds })
        /\ Len(geometry.transforms) = Len(geometry.materialIDs)
        /\ \A i \in DOMAIN geometry.materialIDs :
              geometry.materialIDs[i] = geometry.transforms[i]
        /\ \A i, j \in DOMAIN geometry.materialIDs :
              geometry.materialIDs[i] = geometry.materialIDs[j] => i = j
        /\ geometry.count = Len(commands)
        /\ geometry.capacity = geometry.count

C38_Witness ==
    /\ geometry.pc = "filled"
    /\ geometry.count = 2
    /\ Len(instances) = 3
    /\ instances[1] = [ mesh |-> 2, static |-> TRUE ]
    /\ instances[2].mesh = 1
    /\ geometry.commands[2].baseInstance = 1
    /\ geometry.commands[2].instanceCount = 2
    /\ geometry.materialIDs = << 2, 1, 3 >>

(***************************************************************************)
(* Properties of the device-object wrappers.                               *)
(***************************************************************************)
\* The wrappers that hold the device object of a name.
Owners(name) == { i \in Instances : wrappers.ids[i] = name }

\* How many times the device object of a name was handed to glDelete*.
Deletions(name) ==
    Cardinality({ k \in DOMAIN device.deleted : device.deleted[k] = name })

\* C39: after any sequence of initialise, clean, move-construct and
\* move-assign calls on the wrappers, failed initialise calls included, every
\* device object that was created is either owned by exactly one wrapper and
\* was never deleted, or is owned by none and was deleted exactly once.
C39_CreatedOwnedOrDeletedOnce ==
    \A name \in 1 .. device.created :
        \/ Cardinality(Owners(name)) = 1 /\ Deletions(name) = 0
        \/ Owners(name) = { } /\ Deletions(name) = 1

(***************************************************************************)
(* Properties of Uniforms::calculateAlignedSize.                           *)
(***************************************************************************)
\* The multiples of an alignment up to the largest size a call can return.
Multiples(alignment) == { m \in 0 .. (2 * MaxAligned) : m % alignment = 0 }

\* C40: for a type size s > 0 and an alignment a > 0, calculateAlignedSize
\* returns the smallest multiple of a that is at least s, which is s itself
\* when s is a multiple of a.
C40_AlignedSizeIsSmallestMultiple ==
    (aligned.called /\ aligned.size > 0 /\ aligned.alignment > 0) =>
        /\ aligned.ret \in Multiples(aligned.alignment)
        /\ aligned.ret >= aligned.size
        /\ \A m \in Multiples(aligned.alignment) :
              m >= aligned.size => aligned.ret <= m
        /\ aligned.size \in Multiples(aligned.alignment) => aligned.ret = aligned.size

C40_Witness ==
    /\ aligned.called
    /\ aligned.size = 5
    /\ aligned.alignment = 4
    /\ aligned.ret = 8

====
